---------------------------- MODULE Spec2Model ----------------------------
(***************************************************************************)
(* ASKII: the multi-turn workspace agent ("ASKII Do", askiiDoCommand) of   *)
(* src/src/extension.ts, with the pure helpers it calls.                   *)
(*                                                                         *)
(* Strings are sequences of one-character strings; a path is the sequence  *)
(* of its segments; a location of the file system is the normalised        *)
(* sequence of segments that path.join produces.                           *)
(***************************************************************************)
EXTENDS Integers, Sequences, FiniteSets, TLC

(***************************************************************************)
(* Bounds of the model.                                                    *)
(***************************************************************************)
\* the longest action array one model response holds
MaxActions == 2
\* the largest value the askii.doMaxRounds setting takes in the model
MaxSetting == 2
\* the longest response text, in lexical pieces, that parseWorkspaceActions
\* is called on by itself
MaxTokens == 5
\* the longest content of the file a modify action is applied to by itself
MaxFileLen == 2
\* the longest string escapeJsonString is called on by itself
MaxStrLen == 3

(***************************************************************************)
(* JavaScript values.                                                      *)
(***************************************************************************)
\* a property that is absent from a decoded JSON object
Undefined == <<"<undefined>">>
\* the string value of a one-character text
Str(c) == <<c>>
\* JavaScript truthiness of a string-or-undefined value
Truthy(v) == v # Undefined /\ v # <<>>

BS == "\\"
NL == "<LF>"
CR == "<CR>"
TAB == "<TAB>"
QUOTE == "\""

(***************************************************************************)
(* String.prototype.replace                                                *)
(***************************************************************************)
RECURSIVE ReplaceAll(_, _, _)
\* str.replace(/pat/g, rep) for a literal, non-empty pattern and a
\* replacement without $ patterns: left to right, non-overlapping
ReplaceAll(str, pat, rep) ==
    IF Len(str) < Len(pat) THEN str
    ELSE IF SubSeq(str, 1, Len(pat)) = pat
         THEN rep \o ReplaceAll(SubSeq(str, Len(pat) + 1, Len(str)), pat, rep)
         ELSE <<Head(str)>> \o ReplaceAll(Tail(str), pat, rep)

\* position of the first occurrence of pat in str, 0 when there is none
IndexOf(str, pat) ==
    LET hits == {i \in 1..(Len(str) - Len(pat) + 1) :
                    SubSeq(str, i, i + Len(pat) - 1) = pat}
    IN  IF hits = {} THEN 0 ELSE CHOOSE i \in hits : \A j \in hits : i <= j

RECURSIVE ExpandReplacement(_, _, _, _)
\* the replacement text of replace(string, string): $$, $&, $` and $' are
\* special replacement patterns even when the pattern is a string
ExpandReplacement(rep, matched, before, after) ==
    IF rep = <<>> THEN <<>>
    ELSE IF Head(rep) = "$" /\ Len(rep) >= 2 /\ rep[2] \in {"$", "&", "`", "'"}
         THEN (CASE rep[2] = "$" -> <<"$">>
                 [] rep[2] = "&" -> matched
                 [] rep[2] = "`" -> before
                 [] rep[2] = "'" -> after)
              \o ExpandReplacement(SubSeq(rep, 3, Len(rep)), matched, before, after)
         ELSE <<Head(rep)>> \o ExpandReplacement(Tail(rep), matched, before, after)

\* content.replace(oldContent, newContent) with a string pattern: the first
\* occurrence only
StringReplace(content, old, new) ==
    LET i == IndexOf(content, old)
    IN  IF i = 0 THEN content
        ELSE LET before == SubSeq(content, 1, i - 1)
                 after  == SubSeq(content, i + Len(old), Len(content))
             IN  before \o ExpandReplacement(new, old, before, after) \o after

(***************************************************************************)
(* escapeJsonString / unescapeJsonString                                   *)
(***************************************************************************)
escapeJsonString(str) ==
    ReplaceAll(
      ReplaceAll(
        ReplaceAll(
          ReplaceAll(
            ReplaceAll(str, <<BS>>, <<BS, BS>>),
            <<QUOTE>>, <<BS, QUOTE>>),
          <<NL>>, <<BS, "n">>),
        <<CR>>, <<BS, "r">>),
      <<TAB>>, <<BS, "t">>)

unescapeJsonString(str) ==
    ReplaceAll(
      ReplaceAll(
        ReplaceAll(
          ReplaceAll(
            ReplaceAll(str, <<BS, "n">>, <<NL>>),
            <<BS, "r">>, <<CR>>),
          <<BS, "t">>, <<TAB>>),
        <<BS, QUOTE>>, <<QUOTE>>),
      <<BS, BS>>, <<BS>>)

(***************************************************************************)
(* Paths and the file system                                               *)
(***************************************************************************)
\* workspaceRoot.uri.fsPath
Root == <<"home", "ws">>

RECURSIVE Normalize(_, _)
\* path.normalize on segments: "." is dropped, ".." removes the segment
\* before it (and is dropped at the top of the file system)
Normalize(done, rest) ==
    IF rest = <<>> THEN done
    ELSE IF Head(rest) = "." THEN Normalize(done, Tail(rest))
    ELSE IF Head(rest) = ".."
         THEN Normalize(IF done = <<>> THEN done
                        ELSE SubSeq(done, 1, Len(done) - 1), Tail(rest))
    ELSE Normalize(Append(done, Head(rest)), Tail(rest))

\* path.join(workspaceRoot.uri.fsPath, action.path)
PathJoin(root, p) == Normalize(<<>>, root \o p)

\* path.dirname of a location
Dirname(loc) == SubSeq(loc, 1, Len(loc) - 1)

\* the paths the model's responses name
PathX == <<"x">>
PathOut == <<"..", "out", "outside.txt">>
\* the name that is no own property of an object literal: viewResults is {},
\* and viewResults["__proto__"] = "..." calls the setter inherited from
\* Object.prototype, which ignores a value that is a string
PathProto == <<"__proto__">>
Paths == {PathX, PathOut}
Locs == {PathJoin(Root, p) : p \in Paths}

\* a file that does not exist
Absent == <<"<absent>">>
\* viewResults entry of an unreadable file: `Error: Cannot read file`
CannotRead == <<"Error: Cannot read file">>

\* fs.readFileSync(loc, "utf-8") throws
ReadFails(fl, dn, loc) == fl[loc] = Absent \/ loc \in dn
\* fs.writeFileSync(loc, data) throws
WriteFails(dr, dn, loc) == loc \in dn \/ Dirname(loc) \notin dr
\* fs.unlinkSync(loc) throws
UnlinkFails(fl, dn, loc) == fl[loc] = Absent \/ loc \in dn
\* fs.mkdirSync(dir, {recursive: true}): dir and every missing ancestor
MkdirRecursive(dr, dir) == dr \cup {SubSeq(dir, 1, n) : n \in 0..Len(dir)}

(***************************************************************************)
(* WorkspaceAction and the values JSON.parse produces                      *)
(***************************************************************************)
\* a decoded JSON object with the properties of a WorkspaceAction
Raw(t, p, c, o, n) ==
    [json |-> "object", type |-> t, path |-> p, content |-> c,
     oldContent |-> o, newContent |-> n]

\* a decoded JSON value that is no object (null, a number, a string, a
\* nested array): reading .type or .path of it gives undefined, except that
\* reading a property of null throws a TypeError
JsValue(kind) ==
    [json |-> kind, type |-> "", path |-> Undefined, content |-> Undefined,
     oldContent |-> Undefined, newContent |-> Undefined]
JsNull == JsValue("null")
JsNumber == JsValue("number")
JsArray == JsValue("array")

\* a path property that holds the number 5, not a string
PathFive == <<"<number>", "5">>
\* typeof v === "string", for the value of a path property
IsString(v) == v # Undefined /\ (v = <<>> \/ Head(v) # "<number>")

ActionTypes == {"view", "create", "modify", "delete"}

\* a filter callback that checks the required fields only
IsValidActionAnyType(action) == action.type # "" /\ Truthy(action.path)

\* the filter callback of parseWorkspaceActions, on a value that is not
\* null
IsValidAction(action) ==
    IF ~(action.type # "" /\ Truthy(action.path)) THEN FALSE
    ELSE action.type \in ActionTypes

(***************************************************************************)
(* Response texts.  A text is a sequence of lexical pieces: the brackets   *)
(* and the comma, a run of other characters ("prose": words, a code fence),*)
(* and the JSON text of one array element, which carries the value it      *)
(* decodes to.  White space between pieces is left out.                    *)
(***************************************************************************)
Piece(t, v) == [tok |-> t, value |-> v]
LB == Piece("[", JsValue("none"))
RB == Piece("]", JsValue("none"))
COMMA == Piece(",", JsValue("none"))
PROSE == Piece("prose", JsValue("none"))
\* the JSON text of a value
Lit(v) == Piece("value", v)

RECURSIVE Separated(_)
\* the texts of the elements with a comma between them
Separated(elems) ==
    IF elems = <<>> THEN <<>>
    ELSE IF Len(elems) = 1 THEN <<Lit(elems[1])>>
    ELSE <<Lit(Head(elems)), COMMA>> \o Separated(Tail(elems))

\* the response text that is exactly the JSON array of the elements
ArrayText(elems) == <<LB>> \o Separated(elems) \o <<RB>>

\* responseText.match(/\[[\s\S]*\]/): greedy, from the first "[" to the last
\* "]" of the text; <<>> stands for null (no match)
RegexMatch(text) ==
    LET opens  == {i \in 1..Len(text) : text[i].tok = "["}
        closes == {i \in 1..Len(text) : text[i].tok = "]"}
    IN  IF opens = {} THEN <<>>
        ELSE LET first == CHOOSE i \in opens : \A j \in opens : i <= j
                 after == {j \in closes : j > first}
             IN  IF after = {} THEN <<>>
                 ELSE SubSeq(text, first,
                             CHOOSE j \in after : \A k \in after : k <= j)

RECURSIVE ParseArray(_, _)
RECURSIVE ParseElements(_, _, _)
\* JSON array grammar from the "[" at position i: the elements, and the
\* position after the closing "]"
ParseArray(toks, i) ==
    IF i + 1 > Len(toks) THEN [ok |-> FALSE, next |-> 0, value |-> <<>>]
    ELSE IF toks[i + 1].tok = "]"
    THEN [ok |-> TRUE, next |-> i + 2, value |-> <<>>]
    ELSE ParseElements(toks, i + 1, <<>>)

\* one element at position i, then "," and more elements, or "]"
ParseElements(toks, i, acc) ==
    LET fail == [ok |-> FALSE, next |-> 0, value |-> <<>>]
        elem == IF i > Len(toks) THEN fail
                ELSE IF toks[i].tok = "["
                THEN LET inner == ParseArray(toks, i)
                     IN  [ok |-> inner.ok, next |-> inner.next, value |-> JsArray]
                ELSE IF toks[i].tok = "value"
                THEN [ok |-> TRUE, next |-> i + 1, value |-> toks[i].value]
                ELSE fail
    IN  IF ~elem.ok \/ elem.next > Len(toks) THEN fail
        ELSE IF toks[elem.next].tok = "]"
        THEN [ok |-> TRUE, next |-> elem.next + 1,
              value |-> Append(acc, elem.value)]
        ELSE IF toks[elem.next].tok = ","
        THEN ParseElements(toks, elem.next + 1, Append(acc, elem.value))
        ELSE fail

\* JSON.parse(jsonMatch[0]) of a span that starts with "[": the decoded
\* array, or a SyntaxError (ok = FALSE)
JsonParse(span) ==
    LET r == ParseArray(span, 1)
    IN  IF r.ok /\ r.next = Len(span) + 1
        THEN [ok |-> TRUE, value |-> r.value]
        ELSE [ok |-> FALSE, value |-> <<>>]

(***************************************************************************)
(* parseWorkspaceActions                                                   *)
(***************************************************************************)
\* the try block left by a throw
Failure(message) == [error |-> message, value |-> <<>>]

\* the try block of parseWorkspaceActions: the value it returns, or the
\* error thrown in it (the callback of filter throws a TypeError when it
\* reads .type of null)
TryParse(responseText) ==
    LET jsonMatch == RegexMatch(responseText)
    IN  IF jsonMatch = <<>> THEN Failure("No JSON array found in response")
        ELSE LET actions == JsonParse(jsonMatch)
             IN  IF ~actions.ok THEN Failure("SyntaxError")
                 ELSE IF \E i \in 1..Len(actions.value) :
                            actions.value[i].json = "null"
                 THEN Failure("TypeError")
                 ELSE [error |-> "",
                       value |-> SelectSeq(actions.value, IsValidAction)]

\* a catch block that reports the error and throws it again
CatchParseRethrow(r) == [threw |-> r.error # "", value |-> r.value]

\* the catch block of parseWorkspaceActions: console.error, return []
CatchParse(r) ==
    [threw |-> FALSE, value |-> IF r.error # "" THEN <<>> ELSE r.value]

\* how a call of parseWorkspaceActions completes: it returns value, or an
\* exception leaves it
parseWorkspaceActionsCall(responseText) == CatchParse(TryParse(responseText))

\* the value parseWorkspaceActions returns
parseWorkspaceActions(responseText) == parseWorkspaceActionsCall(responseText).value

\* the decoded elements the model's responses are made of
RawElements ==
    { Raw("view", PathX, Undefined, Undefined, Undefined),
      Raw("create", PathX, Str("a"), Undefined, Undefined),
      Raw("create", PathOut, <<BS, "n">>, Undefined, Undefined),
      Raw("modify", PathX, Undefined, Str("a"), Str("b")),
      Raw("delete", PathX, Undefined, Undefined, Undefined) }

\* a response without any bracket
ProseOnly == <<PROSE>>
\* an action array followed by text that holds a "]"
Garbled == ArrayText(<<Raw("view", PathX, Undefined, Undefined, Undefined)>>)
               \o <<PROSE, RB>>
\* an action array whose first element is null
NullFirst ==
    ArrayText(<<JsNull, Raw("create", PathX, Str("a"), Undefined, Undefined)>>)

\* an action array whose first element has a type that is no action type
UnknownFirst ==
    ArrayText(<<Raw("rename", PathX, Undefined, Undefined, Undefined),
                Raw("create", PathX, Str("a"), Undefined, Undefined)>>)

\* the response texts of the LLM calls: no array, an undecodable span, an
\* array that holds null, one that holds an unknown type, and the JSON
\* arrays of up to MaxActions elements
Responses ==
    {ProseOnly, Garbled, NullFirst, UnknownFirst} \cup
    {ArrayText(e) : e \in UNION {[1..n -> RawElements] : n \in 0..MaxActions}}

\* decoded elements among which a modify lacks one of its fragments
MalformedElements ==
    { Raw("view", PathX, Undefined, Undefined, Undefined),
      Raw("create", PathX, Str("a"), Undefined, Undefined),
      Raw("modify", PathX, Undefined, Str("a"), Undefined),
      Raw("modify", PathX, Undefined, Undefined, Str("b")) }

\* the response texts that are JSON arrays of up to MaxActions of them
MalformedResponses ==
    {ArrayText(e) :
        e \in UNION {[1..n -> MalformedElements] : n \in 0..MaxActions}}

(***************************************************************************)
(* State                                                                   *)
(***************************************************************************)
\* invocations of the askii.doTask command; the command is registered
\* without a guard, so it can be invoked again while an earlier one runs
Sessions == {1, 2}

VARIABLES
    files,            \* file system: location -> content, or Absent
    dirs,             \* file system: the directories that exist
    denied,           \* file system: locations whose operations fail (EACCES)
    doMaxRounds,      \* the askii.doMaxRounds setting (0: unset)
    pc,               \* per session: where askiiDoCommand is suspended
    maxRounds,        \* per session: const maxRounds
    roundCount,       \* per session: let roundCount
    completedActions, \* per session: let completedActions
    userMessage,      \* per session: let userMessage
    viewResults,      \* per session: const viewResults of the current round
    viewActions,      \* per session: const viewActions of the current round
    otherActions,     \* per session: const otherActions of the current round
    cursor,           \* per session: position of the for loop in otherActions
    fullPrompt,       \* per session: the prompt of the last LLM call
    llmCalls,         \* per session: number of LLM calls issued
    terminal,         \* per session: the message askiiDoCommand ended with
    thrown,           \* per session: what the try block threw, if anything
    everyRoundViewed, \* per session: every response so far held a view action
    last,             \* what the last step did
    responseText,     \* a call of parseWorkspaceActions on its own: its argument
    completion,       \* a call of parseWorkspaceActions on its own: its outcome
    roundTrip,        \* escapeJsonString, then unescapeJsonString, on their own
    inlineHelperMode, \* the askii.inlineHelperMode setting
    activeTextEditor, \* vscode.window.activeTextEditor: the document it shows
    selection,        \* per editor: the line of editor.selection.active
    explanationCache, \* const explanationCache: cache key -> entry
    debounceTimer,    \* let debounceTimer: the pending timer, if any
    thinkingTimer,    \* let thinkingTimer: the pending timer, if any
    requests,         \* calls of getLLMExplanation awaiting the provider
    decorations,      \* per editor: what setDecorations left on screen
    latestMove,       \* the last cursor move: where it went
    activated,        \* the extension is active: deactivate() has not run
    lastSettled       \* the last step was the return of a request: its signal

fsVars == <<files, dirs, denied>>
sessionVars == <<pc, maxRounds, roundCount, completedActions, userMessage,
                 viewResults, viewActions, otherActions, cursor, fullPrompt,
                 llmCalls, terminal, thrown, everyRoundViewed>>
vars == <<files, dirs, denied, doMaxRounds, pc, maxRounds, roundCount,
          completedActions, userMessage, viewResults, viewActions, otherActions,
          cursor, fullPrompt, llmCalls, terminal, thrown,
          everyRoundViewed, last, responseText, completion, roundTrip,
          inlineHelperMode, activeTextEditor, selection, explanationCache,
          debounceTimer, thinkingTimer, requests, decorations, latestMove,
          activated, lastSettled>>
parserVars == <<responseText, completion, roundTrip>>
inlineVars == <<inlineHelperMode, activeTextEditor, selection, explanationCache,
                debounceTimer, thinkingTimer, requests, decorations, latestMove,
                activated, lastSettled>>

NoResults == [p \in {} |-> <<>>]
NoAction == Raw("", Undefined, Undefined, Undefined, Undefined)
NoPrompt == [first |-> FALSE, text |-> "none", results |-> NoResults]
\* the message a confirmed action ends with: "Created/Modified/Deleted: ..."
\* (showInformationMessage), "Cannot modify/delete file: ..."
\* (showErrorMessage), or none
ActionMessage(outcome) ==
    CASE outcome = "applied" -> "success"
      [] outcome = "failed" -> "error"
      [] OTHER -> "none"

Event(s, e, a, ans, out) ==
    [session |-> s, event |-> e, action |-> a, answer |-> ans, outcome |-> out,
     shown |-> ActionMessage(out)]

\* the user closes a notification without choosing a button
Dismissed == "<dismissed>"
\* the buttons of the confirmation of each action type
Buttons(type) ==
    CASE type = "create" -> {"Create", "Skip"}
      [] type = "modify" -> {"Modify", "Skip"}
      [] type = "delete" -> {"Delete", "Cancel"}
      [] OTHER -> {}

(***************************************************************************)
(* askiiDoCommand: the pieces between two suspension points                *)
(***************************************************************************)
DefaultMaxRounds == 5

\* config.get<number>("doMaxRounds") || 5
EffectiveMaxRounds(setting) == IF setting = 0 THEN DefaultMaxRounds ELSE setting

\* the loop condition off by one: roundCount <= maxRounds
LoopConditionInclusive(rc, mx) == rc <= mx

\* while (roundCount < maxRounds)
LoopCondition(rc, mx) == rc < mx

\* actions.filter((a) => a.type === "view")
ViewActions(acts) == SelectSeq(acts, LAMBDA a : a.type = "view")
\* a partition that leaves the view actions among the others
OtherActionsAll(acts) == acts

RECURSIVE Reverse(_)
Reverse(seq) == IF seq = <<>> THEN <<>> ELSE Append(Reverse(Tail(seq)), Head(seq))
\* the non-view actions taken last first
OtherActionsReversed(acts) == Reverse(SelectSeq(acts, LAMBDA a : a.type # "view"))

\* actions.filter((a) => a.type !== "view")
OtherActions(acts) == SelectSeq(acts, LAMBDA a : a.type # "view")

\* the viewResults entry of one view action
ViewEntry(fl, dn, p) ==
    IF ReadFails(fl, dn, PathJoin(Root, p)) THEN CannotRead
    ELSE escapeJsonString(fl[PathJoin(Root, p)])

\* the for loop over viewActions: viewResults[action.path] = ... on the
\* object literal viewResults, whose own keys never include "__proto__"
ExecuteViews(fl, dn, views) ==
    LET keys  == {views[i].path : i \in 1..Len(views)} \ {PathProto}
    IN  [p \in keys |-> ViewEntry(fl, dn, p)]

\* the test on viewResults that is true of the empty object too
HasViewResultsAlways(vr) == Cardinality(DOMAIN vr) >= 0

\* Object.keys(viewResults).length > 0
HasViewResults(vr) == Cardinality(DOMAIN vr) > 0

\* the confirmation read as "not refused": a dismissed prompt counts as yes
IsConfirmedUnlessRefused(type, answer) == answer \notin {"Skip", "Cancel"}

\* confirmed === "Create" / "Modify" / "Delete"
IsConfirmed(type, answer) ==
    CASE type = "create" -> answer = "Create"
      [] type = "modify" -> answer = "Modify"
      [] type = "delete" -> answer = "Delete"
      [] OTHER -> FALSE

\* the create branch with a clean-up that removes the file when the write
\* throws
CreateBranchCleanup(action, answer, fl, dr, dn) ==
    IF IsConfirmed("create", answer)
    THEN LET filePath == PathJoin(Root, action.path)
             dir  == Dirname(filePath)
             dr1  == IF dir \notin dr THEN MkdirRecursive(dr, dir) ELSE dr
             data == IF Truthy(action.content)
                     THEN unescapeJsonString(action.content) ELSE <<>>
         IN  IF WriteFails(dr1, dn, filePath)
             THEN [files |-> [fl EXCEPT ![filePath] = Absent], dirs |-> dr1,
                   outcome |-> "threw"]
             ELSE [files |-> [fl EXCEPT ![filePath] = data], dirs |-> dr1,
                   outcome |-> "applied"]
    ELSE [files |-> fl, dirs |-> dr, outcome |-> "declined"]

\* the create branch that appends to a file that exists (appendFileSync)
CreateBranchAppends(action, answer, fl, dr, dn) ==
    IF IsConfirmed("create", answer)
    THEN LET filePath == PathJoin(Root, action.path)
             dir  == Dirname(filePath)
             dr1  == IF dir \notin dr THEN MkdirRecursive(dr, dir) ELSE dr
             data == IF Truthy(action.content)
                     THEN unescapeJsonString(action.content) ELSE <<>>
         IN  IF WriteFails(dr1, dn, filePath)
             THEN [files |-> fl, dirs |-> dr1, outcome |-> "threw"]
             ELSE [files |-> [fl EXCEPT ![filePath] =
                                IF @ = Absent THEN data ELSE @ \o data],
                   dirs |-> dr1, outcome |-> "applied"]
    ELSE [files |-> fl, dirs |-> dr, outcome |-> "declined"]

\* the create branch; a throw of writeFileSync is not caught in the loop
CreateBranch(action, answer, fl, dr, dn) ==
    IF IsConfirmed("create", answer)
    THEN LET filePath == PathJoin(Root, action.path)
             dir  == Dirname(filePath)
             dr1  == IF dir \notin dr THEN MkdirRecursive(dr, dir) ELSE dr
             data == IF Truthy(action.content)
                     THEN unescapeJsonString(action.content) ELSE <<>>
         IN  IF WriteFails(dr1, dn, filePath)
             THEN [files |-> fl, dirs |-> dr1, outcome |-> "threw"]
             ELSE [files |-> [fl EXCEPT ![filePath] = data], dirs |-> dr1,
                   outcome |-> "applied"]
    ELSE [files |-> fl, dirs |-> dr, outcome |-> "declined"]

\* the modify branch with the fragments swapped in the call of replace
ModifyBranchSwapped(action, answer, fl, dr, dn) ==
    IF IsConfirmed("modify", answer)
    THEN LET filePath == PathJoin(Root, action.path)
             oldContent == IF Truthy(action.oldContent)
                           THEN unescapeJsonString(action.oldContent) ELSE <<>>
             newContent == IF Truthy(action.newContent)
                           THEN unescapeJsonString(action.newContent) ELSE <<>>
         IN  IF ReadFails(fl, dn, filePath) \/ WriteFails(dr, dn, filePath)
             THEN [files |-> fl, dirs |-> dr, outcome |-> "failed"]
             ELSE [files |-> [fl EXCEPT ![filePath] =
                                StringReplace(fl[filePath], newContent, oldContent)],
                   dirs |-> dr, outcome |-> "applied"]
    ELSE [files |-> fl, dirs |-> dr, outcome |-> "declined"]

\* the modify branch that reports a failure when the fragment is not found
ModifyBranchNeedsMatch(action, answer, fl, dr, dn) ==
    IF IsConfirmed("modify", answer)
    THEN LET filePath == PathJoin(Root, action.path)
             oldContent == IF Truthy(action.oldContent)
                           THEN unescapeJsonString(action.oldContent) ELSE <<>>
             newContent == IF Truthy(action.newContent)
                           THEN unescapeJsonString(action.newContent) ELSE <<>>
         IN  IF ReadFails(fl, dn, filePath) \/ WriteFails(dr, dn, filePath)
             THEN [files |-> fl, dirs |-> dr, outcome |-> "failed"]
             ELSE IF IndexOf(fl[filePath], oldContent) = 0
             THEN [files |-> fl, dirs |-> dr, outcome |-> "failed"]
             ELSE [files |-> [fl EXCEPT ![filePath] =
                                StringReplace(fl[filePath], oldContent, newContent)],
                   dirs |-> dr, outcome |-> "applied"]
    ELSE [files |-> fl, dirs |-> dr, outcome |-> "declined"]

\* the modify branch that takes a file it cannot read for an empty one and
\* writes the new fragment
ModifyBranchWritesAnyway(action, answer, fl, dr, dn) ==
    IF IsConfirmed("modify", answer)
    THEN LET filePath == PathJoin(Root, action.path)
             oldContent == IF Truthy(action.oldContent)
                           THEN unescapeJsonString(action.oldContent) ELSE <<>>
             newContent == IF Truthy(action.newContent)
                           THEN unescapeJsonString(action.newContent) ELSE <<>>
             content == IF ReadFails(fl, dn, filePath) THEN <<>> ELSE fl[filePath]
         IN  IF WriteFails(dr, dn, filePath)
             THEN [files |-> fl, dirs |-> dr, outcome |-> "failed"]
             ELSE [files |-> [fl EXCEPT ![filePath] =
                                IF ReadFails(fl, dn, filePath) THEN newContent
                                ELSE StringReplace(content, oldContent, newContent)],
                   dirs |-> dr, outcome |-> "applied"]
    ELSE [files |-> fl, dirs |-> dr, outcome |-> "declined"]

\* the modify branch, with its try/catch
ModifyBranch(action, answer, fl, dr, dn) ==
    IF IsConfirmed("modify", answer)
    THEN LET filePath == PathJoin(Root, action.path)
             oldContent == IF Truthy(action.oldContent)
                           THEN unescapeJsonString(action.oldContent) ELSE <<>>
             newContent == IF Truthy(action.newContent)
                           THEN unescapeJsonString(action.newContent) ELSE <<>>
         IN  IF ReadFails(fl, dn, filePath) \/ WriteFails(dr, dn, filePath)
             THEN [files |-> fl, dirs |-> dr, outcome |-> "failed"]
             ELSE [files |-> [fl EXCEPT ![filePath] =
                                StringReplace(fl[filePath], oldContent, newContent)],
                   dirs |-> dr, outcome |-> "applied"]
    ELSE [files |-> fl, dirs |-> dr, outcome |-> "declined"]

\* the delete branch that goes on unless the answer is "Cancel"
DeleteBranchUnlessCancelled(action, answer, fl, dr, dn) ==
    IF answer # "Cancel"
    THEN LET filePath == PathJoin(Root, action.path)
         IN  IF UnlinkFails(fl, dn, filePath)
             THEN [files |-> fl, dirs |-> dr, outcome |-> "failed"]
             ELSE [files |-> [fl EXCEPT ![filePath] = Absent], dirs |-> dr,
                   outcome |-> "applied"]
    ELSE [files |-> fl, dirs |-> dr, outcome |-> "declined"]

\* the delete branch, with its try/catch
DeleteBranch(action, answer, fl, dr, dn) ==
    IF IsConfirmed("delete", answer)
    THEN LET filePath == PathJoin(Root, action.path)
         IN  IF UnlinkFails(fl, dn, filePath)
             THEN [files |-> fl, dirs |-> dr, outcome |-> "failed"]
             ELSE [files |-> [fl EXCEPT ![filePath] = Absent], dirs |-> dr,
                   outcome |-> "applied"]
    ELSE [files |-> fl, dirs |-> dr, outcome |-> "declined"]

\* the body of the for loop over otherActions, after its confirmation; an
\* action of another type matches no branch of the if chain
ExecuteAction(action, answer, fl, dr, dn) ==
    CASE action.type = "create" -> CreateBranch(action, answer, fl, dr, dn)
      [] action.type = "modify" -> ModifyBranch(action, answer, fl, dr, dn)
      [] action.type = "delete" -> DeleteBranch(action, answer, fl, dr, dn)
      [] OTHER -> [files |-> fl, dirs |-> dr, outcome |-> "declined"]

\* a for loop that leaves out the last element
HasNextActionButLast(cur, others) == cur + 1 < Len(others)

\* for (const action of otherActions): whether an action follows the one
\* at position cur
HasNextAction(cur, others) == cur < Len(others)

\* a tally that counts every confirmed action, failed ones too
CompletedAfterAttempt(n, outcome) ==
    IF outcome \in {"applied", "failed"} THEN n + 1 ELSE n

\* completedActions++ : the last statement of the confirmed branch, after
\* the file operation
CompletedAfter(n, outcome) == IF outcome = "applied" THEN n + 1 ELSE n

\* const fullPrompt = roundCount === 0 ? ... question : ... userMessage
BuildPrompt(rc, um) == [first |-> (rc = 0), text |-> um.text, results |-> um.results]

\* userMessage = `File contents retrieved: ${JSON.stringify(viewResults)} ...`
FileContentsMessage(vr) == [text |-> "File contents retrieved", results |-> vr]

\* a catch block that swallows the error and falls through to the summary
CatchTerminalSwallowed(threw) == "summary"

\* a catch block that only logs the error
CatchTerminalSilent(threw) == IF threw THEN "none" ELSE "summary"

\* the catch block of askiiDoCommand: what the command ends with when
\* something threw
CatchTerminal(threw) == IF threw THEN "failed" ELSE "summary"

\* the end of one pass of the while loop once the for loops are through:
\* the test on viewResults, then the loop condition again
AfterRound(rc, mx, um, vr) ==
    IF HasViewResults(vr)
    THEN [pc |-> IF LoopCondition(rc + 1, mx) THEN "awaitModel" ELSE "done",
          roundCount |-> rc + 1, userMessage |-> FileContentsMessage(vr)]
    ELSE [pc |-> "done", roundCount |-> rc, userMessage |-> um]

(***************************************************************************)
(* The inline helper: documents, cache keys, timers                        *)
(***************************************************************************)
\* str.startsWith(prefix)
StartsWith(str, prefix) ==
    Len(prefix) <= Len(str) /\ SubSeq(str, 1, Len(prefix)) = prefix

RECURSIVE TrimStart(_)
TrimStart(str) ==
    IF str # <<>> /\ Head(str) = " " THEN TrimStart(Tail(str)) ELSE str

RECURSIVE TrimEnd(_)
TrimEnd(str) ==
    IF str # <<>> /\ str[Len(str)] = " "
    THEN TrimEnd(SubSeq(str, 1, Len(str) - 1)) ELSE str

\* String.prototype.trim, on texts whose only white space is the blank
Trim(str) == TrimEnd(TrimStart(str))

\* editor.document.uri.toString() of the two open documents; the second
\* URI starts with the first
UriA == <<"a", ".", "t", "s">>
UriB == <<"a", ".", "t", "s", "x">>
Editors == {UriA, UriB}

\* the text of the documents: the first holds two lines of code and a
\* closing brace, the second one line of code
DocumentLines(uri) ==
    IF uri = UriA
    THEN << <<" ", "a", "=", "1", ";">>, <<"b", "=", "2", ";">>, <<" ", "}">> >>
    ELSE << <<"c", "=", "3", ";">> >>
\* position.line is counted from 0
LineNumbers(uri) == 0..(Len(DocumentLines(uri)) - 1)
\* editor.document.lineAt(line).text
LineAt(uri, line) == DocumentLines(uri)[line + 1]

\* `${editor.document.uri.toString()}:${position.line}:${lineText}`
CacheKey(uri, line, lineText) ==
    uri \o <<":">> \o <<ToString(line)>> \o <<":">> \o lineText

\* getRandomKaomoji() / getRandomThinkingKaomoji(): the lists are abridged
\* to one face each
Kaomojis == {"(^_^)"}
ThinkingKaomojis == {"(o_o)"}

\* what the provider answers, and the text getLLMExplanation makes of a
\* provider error
Answers == {"e1"}
ErrorText == "Error: provider"

\* setTimeout delays of updateDecorations, in milliseconds
ThinkingDelay == 300
DebounceDelay == 1000

\* no timer is pending (the variable is undefined, or holds the handle of
\* a timer that fired or was cleared)
NoTimer == [pending |-> FALSE, uri |-> <<>>, line |-> 0, key |-> <<>>,
            remaining |-> 0]
\* setTimeout(callback, delay), the callback closing over editor,
\* position.line and cacheKey
SetTimeout(uri, line, key, delay) ==
    [pending |-> TRUE, uri |-> uri, line |-> line, key |-> key,
     remaining |-> delay]

\* editor.setDecorations(decorationType, [])
NoDecoration == [line |-> -1, kaomoji |-> "", text |-> ""]
\* showDecoration(editor, lineNumber, kaomoji, text), for texts of at most
\* maxLength characters: editor.setDecorations(decorationType, [decoration])
ShowDecoration(decs, uri, line, kaomoji, text) ==
    [decs EXCEPT ![uri] = [line |-> line, kaomoji |-> kaomoji, text |-> text]]

NoEntries == [k \in {} |-> [kaomoji |-> "", explanation |-> ""]]
\* explanationCache.set(cacheKey, { kaomoji, explanation })
CacheSet(cache, key, kaomoji, explanation) ==
    [k \in (DOMAIN cache) \cup {key} |->
        IF k = key THEN [kaomoji |-> kaomoji, explanation |-> explanation]
        ELSE cache[k]]

\* currentAbortController.abort(): the signal of the controller the
\* variable refers to becomes aborted
AbortCurrent(reqs) ==
    {[r EXCEPT !.aborted = r.aborted \/ r.current] : r \in reqs}
\* currentAbortController = abortController: the variable leaves the
\* controller it referred to
LeaveCurrent(reqs) == {[r EXCEPT !.current = FALSE] : r \in reqs}

\* the cursor is on a short line of the first document, no setting is
\* changed, nothing is cached or scheduled: the state activate() leaves
InlineIdle ==
    /\ inlineHelperMode = "funny"
    /\ activeTextEditor = UriA
    /\ selection = [e \in Editors |-> Len(DocumentLines(e)) - 1]
    /\ explanationCache = NoEntries
    /\ debounceTimer = NoTimer
    /\ thinkingTimer = NoTimer
    /\ requests = {}
    /\ decorations = [e \in Editors |-> NoDecoration]
    /\ latestMove = [uri |-> UriA, line |-> Len(DocumentLines(UriA)) - 1,
                     uncached |-> TRUE]
    /\ activated = TRUE
    /\ lastSettled = "none"

(***************************************************************************)

(* Initial state                                                           *)
(***************************************************************************)
LocX == PathJoin(Root, PathX)
LocOut == PathJoin(Root, PathOut)

\* the workspace before the command: x is missing, or x holds "a" and is
\* read-only; nothing exists outside the workspace
InitFileSystems ==
    { [files |-> [l \in Locs |-> Absent], denied |-> {}],
      [files |-> [l \in Locs |-> IF l = LocX THEN Str("a") ELSE Absent],
       denied |-> {LocX}] }

\* no call of parseWorkspaceActions on its own
NotCalled == [state |-> "none", threw |-> FALSE, value |-> <<>>]

\* no call of the escaping functions on their own
NotEscaped == [state |-> "none", str |-> <<>>, escaped |-> <<>>, unescaped |-> <<>>]

\* the command has not been invoked
SessionsIdle ==
    /\ pc = [s \in Sessions |-> "idle"]
    /\ maxRounds = [s \in Sessions |-> 0]
    /\ roundCount = [s \in Sessions |-> 0]
    /\ completedActions = [s \in Sessions |-> 0]
    /\ userMessage = [s \in Sessions |-> [text |-> "none", results |-> NoResults]]
    /\ viewResults = [s \in Sessions |-> NoResults]
    /\ viewActions = [s \in Sessions |-> <<>>]
    /\ otherActions = [s \in Sessions |-> <<>>]
    /\ cursor = [s \in Sessions |-> 0]
    /\ fullPrompt = [s \in Sessions |-> NoPrompt]
    /\ llmCalls = [s \in Sessions |-> 0]
    /\ terminal = [s \in Sessions |-> "none"]
    /\ thrown = [s \in Sessions |-> "none"]
    /\ everyRoundViewed = [s \in Sessions |-> TRUE]
    /\ last = Event(0, "none", NoAction, "", "")

Init ==
    /\ \E fsys \in InitFileSystems : files = fsys.files /\ denied = fsys.denied
    /\ dirs = {<<>>, <<"home">>, Root}
    /\ doMaxRounds \in 1..MaxSetting
    /\ SessionsIdle
    /\ responseText = <<>>
    /\ completion = NotCalled
    /\ roundTrip = NotEscaped
    /\ InlineIdle

(***************************************************************************)
(* Steps of askiiDoCommand                                                 *)
(***************************************************************************)
\* A pass of the while loop ended in control state c. Either the next pass
\* starts (its prompt is built and its LLM call issued; viewActions, viewResults
\* and otherActions are consts of the loop body and start afresh), or the
\* loop is left and the summary is shown (the last pass is kept on record).
PassEnds(s, c, views, vr, others, cur) ==
    /\ pc' = [pc EXCEPT ![s] = c.pc]
    /\ roundCount' = [roundCount EXCEPT ![s] = c.roundCount]
    /\ userMessage' = [userMessage EXCEPT ![s] = c.userMessage]
    /\ IF c.pc = "awaitModel"
       THEN /\ fullPrompt' = [fullPrompt EXCEPT ![s] =
                                 BuildPrompt(c.roundCount, c.userMessage)]
            /\ llmCalls' = [llmCalls EXCEPT ![s] = @ + 1]
            /\ viewActions' = [viewActions EXCEPT ![s] = <<>>]
            /\ viewResults' = [viewResults EXCEPT ![s] = NoResults]
            /\ otherActions' = [otherActions EXCEPT ![s] = <<>>]
            /\ cursor' = [cursor EXCEPT ![s] = 0]
            /\ UNCHANGED terminal
       ELSE /\ terminal' = [terminal EXCEPT ![s] = CatchTerminal(FALSE)]
            /\ viewActions' = [viewActions EXCEPT ![s] = views]
            /\ viewResults' = [viewResults EXCEPT ![s] = vr]
            /\ otherActions' = [otherActions EXCEPT ![s] = others]
            /\ cursor' = [cursor EXCEPT ![s] = cur]
            /\ UNCHANGED <<fullPrompt, llmCalls>>

\* the command is invoked: showInputBox is shown
Invoke(s) ==
    /\ pc[s] = "idle"
    /\ pc' = [pc EXCEPT ![s] = "awaitQuestion"]
    /\ last' = Event(s, "invoke", NoAction, "", "")
    /\ UNCHANGED <<parserVars, inlineVars>>
    /\ UNCHANGED <<fsVars, doMaxRounds, maxRounds, roundCount, completedActions,
                   userMessage, viewResults, viewActions, otherActions, cursor,
                   fullPrompt, llmCalls, terminal, thrown,
                   everyRoundViewed>>

\* showInputBox returns: the initial checks, the configuration, and the
\* first pass of the while loop up to the LLM call
QuestionAnswered(s, question, hasRoot) ==
    /\ pc[s] = "awaitQuestion"
    /\ last' = Event(s, "question", NoAction, question, "")
    /\ UNCHANGED <<parserVars, inlineVars>>
    /\ UNCHANGED <<fsVars, doMaxRounds, completedActions, thrown, everyRoundViewed>>
    /\ IF question = "" \/ ~hasRoot
       THEN /\ pc' = [pc EXCEPT ![s] = "done"]
            /\ terminal' = [terminal EXCEPT ![s] =
                               IF question = "" THEN "none" ELSE "noWorkspace"]
            /\ UNCHANGED <<maxRounds, roundCount, userMessage, fullPrompt, llmCalls,
                           viewResults, viewActions, otherActions, cursor>>
       ELSE LET mx == EffectiveMaxRounds(doMaxRounds)
                um == [text |-> "User request", results |-> NoResults]
            IN  /\ maxRounds' = [maxRounds EXCEPT ![s] = mx]
                /\ PassEnds(s, [pc |-> IF LoopCondition(0, mx)
                                       THEN "awaitModel" ELSE "done",
                                roundCount |-> 0, userMessage |-> um],
                            <<>>, NoResults, <<>>, 0)

\* the LLM call returns a response: parseWorkspaceActions (its try block,
\* then its catch block), views, then the first
\* confirmation (or the end of the pass when there is nothing to confirm);
\* an exception that leaves parseWorkspaceActions would reach the catch
\* block of the command
ResponseReturns(s, response) ==
    /\ pc[s] = "awaitModel"
    /\ LET tried  == TryParse(response)
           call   == CatchParse(tried)
           acts   == call.value
           vr     == ExecuteViews(files, denied, ViewActions(acts))
           others == OtherActions(acts)
       IN  /\ last' = Event(s, "response", NoAction, "", tried.error)
           /\ UNCHANGED <<fsVars, doMaxRounds, maxRounds, completedActions>>
           /\ UNCHANGED <<parserVars, inlineVars>>
           /\ IF call.threw
              THEN /\ pc' = [pc EXCEPT ![s] = "done"]
                   /\ terminal' = [terminal EXCEPT ![s] = CatchTerminal(TRUE)]
                   /\ thrown' = [thrown EXCEPT ![s] = "parseWorkspaceActions"]
                   /\ UNCHANGED <<roundCount, userMessage, fullPrompt, llmCalls,
                                  viewResults, viewActions, otherActions, cursor,
                                  everyRoundViewed>>
              ELSE /\ everyRoundViewed' = [everyRoundViewed EXCEPT ![s] =
                                             @ /\ Len(ViewActions(acts)) > 0]
                   /\ UNCHANGED thrown
                   /\ IF Len(acts) = 0
                      THEN PassEnds(s, [pc |-> "done",
                                        roundCount |-> roundCount[s],
                                        userMessage |-> userMessage[s]],
                                    <<>>, NoResults, <<>>, 0)
                      ELSE IF Len(others) > 0
                      THEN /\ pc' = [pc EXCEPT ![s] = "awaitConfirm"]
                           /\ viewActions' = [viewActions EXCEPT ![s] =
                                                 ViewActions(acts)]
                           /\ viewResults' = [viewResults EXCEPT ![s] = vr]
                           /\ otherActions' = [otherActions EXCEPT ![s] = others]
                           /\ cursor' = [cursor EXCEPT ![s] = 1]
                           /\ UNCHANGED <<roundCount, userMessage, fullPrompt,
                                          llmCalls, terminal>>
                      ELSE PassEnds(s, AfterRound(roundCount[s], maxRounds[s],
                                                  userMessage[s], vr),
                                    ViewActions(acts), vr, others, 0)

\* the LLM call throws (provider or network error): the catch block
TransportFails(s) ==
    /\ pc[s] = "awaitModel"
    /\ pc' = [pc EXCEPT ![s] = "done"]
    /\ terminal' = [terminal EXCEPT ![s] = CatchTerminal(TRUE)]
    /\ thrown' = [thrown EXCEPT ![s] = "transport"]
    /\ last' = Event(s, "transportError", NoAction, "", "threw")
    /\ UNCHANGED <<parserVars, inlineVars>>
    /\ UNCHANGED <<fsVars, doMaxRounds, maxRounds, roundCount, completedActions,
                   userMessage, viewResults, viewActions, otherActions, cursor,
                   fullPrompt, llmCalls, everyRoundViewed>>

\* the confirmation returns and the branch works on the content the views
\* of the round read, where there is one, not on the file as it is now
ConfirmAnsweredFromSnapshot(s, answer) ==
    /\ pc[s] = "awaitConfirm"
    /\ LET action == otherActions[s][cursor[s]]
           seen == [l \in DOMAIN files |->
                      IF /\ l = PathJoin(Root, action.path)
                         /\ action.path \in DOMAIN viewResults[s]
                         /\ viewResults[s][action.path] # CannotRead
                      THEN unescapeJsonString(viewResults[s][action.path])
                      ELSE files[l]]
           r == ExecuteAction(action, answer, seen, dirs, denied)
       IN  /\ answer \in Buttons(action.type) \cup {Dismissed}
           /\ files' = IF r.outcome = "applied" THEN r.files ELSE files
           /\ dirs' = r.dirs
           /\ last' = Event(s, "confirm", action, answer, r.outcome)
           /\ completedActions' = [completedActions EXCEPT ![s] =
                                     CompletedAfter(@, r.outcome)]
           /\ thrown' = [thrown EXCEPT ![s] =
                           IF r.outcome = "threw" THEN "writeFileSync" ELSE @]
           /\ UNCHANGED <<denied, doMaxRounds, maxRounds, everyRoundViewed>>
           /\ UNCHANGED <<parserVars, inlineVars>>
           /\ IF r.outcome = "threw"
              THEN /\ pc' = [pc EXCEPT ![s] = "done"]
                   /\ terminal' = [terminal EXCEPT ![s] = CatchTerminal(TRUE)]
                   /\ UNCHANGED <<roundCount, userMessage, cursor, fullPrompt,
                                  llmCalls, viewResults, viewActions, otherActions>>
              ELSE IF HasNextAction(cursor[s], otherActions[s])
              THEN /\ cursor' = [cursor EXCEPT ![s] = @ + 1]
                   /\ UNCHANGED <<pc, roundCount, userMessage, fullPrompt, llmCalls,
                                  terminal, viewResults, viewActions, otherActions>>
              ELSE PassEnds(s, AfterRound(roundCount[s], maxRounds[s],
                                          userMessage[s], viewResults[s]),
                            viewActions[s], viewResults[s], otherActions[s],
                            cursor[s] + 1)

\* the confirmation of otherActions[cursor] returns: the branch of the
\* action, then the next confirmation or the end of the pass
ConfirmAnswered(s, answer) ==
    /\ pc[s] = "awaitConfirm"
    /\ LET action == otherActions[s][cursor[s]]
           r == ExecuteAction(action, answer, files, dirs, denied)
       IN  /\ answer \in Buttons(action.type) \cup {Dismissed}
           /\ files' = r.files
           /\ dirs' = r.dirs
           /\ last' = Event(s, "confirm", action, answer, r.outcome)
           /\ completedActions' = [completedActions EXCEPT ![s] =
                                     CompletedAfter(@, r.outcome)]
           /\ thrown' = [thrown EXCEPT ![s] =
                           IF r.outcome = "threw" THEN "writeFileSync" ELSE @]
           /\ UNCHANGED <<denied, doMaxRounds, maxRounds, everyRoundViewed>>
           /\ UNCHANGED <<parserVars, inlineVars>>
           /\ IF r.outcome = "threw"
              THEN /\ pc' = [pc EXCEPT ![s] = "done"]
                   /\ terminal' = [terminal EXCEPT ![s] = CatchTerminal(TRUE)]
                   /\ UNCHANGED <<roundCount, userMessage, cursor, fullPrompt,
                                  llmCalls, viewResults, viewActions, otherActions>>
              ELSE IF HasNextAction(cursor[s], otherActions[s])
              THEN /\ cursor' = [cursor EXCEPT ![s] = @ + 1]
                   /\ UNCHANGED <<pc, roundCount, userMessage, fullPrompt, llmCalls,
                                  terminal, viewResults, viewActions, otherActions>>
              ELSE PassEnds(s, AfterRound(roundCount[s], maxRounds[s],
                                          userMessage[s], viewResults[s]),
                            viewActions[s], viewResults[s], otherActions[s],
                            cursor[s] + 1)

AllAnswers == {"Create", "Modify", "Delete", "Skip", "Cancel", Dismissed}

\* showInputBox returns, with or without a question and a workspace
InputReturns(s) ==
    \E q \in {"", "goal"}, hasRoot \in BOOLEAN : QuestionAnswered(s, q, hasRoot)

\* the LLM call returns or throws
ModelReturns(s) ==
    /\ pc[s] = "awaitModel"
    /\ \/ TransportFails(s)
       \/ \E response \in Responses : ResponseReturns(s, response)

\* the pending confirmation returns
ConfirmReturns(s) == \E answer \in AllAnswers : ConfirmAnswered(s, answer)

Step(s) ==
    \/ Invoke(s)
    \/ InputReturns(s)
    \/ ModelReturns(s)
    \/ ConfirmReturns(s)

\* one invocation of the command
Next == Step(1)

Spec == Init /\ [][Next]_vars

\* every awaited call of the command eventually returns: the input box, the
\* LLM call, the confirmation
\* (the command is suspended in at most one of them at a time)
Returns(s) == InputReturns(s) \/ ModelReturns(s) \/ ConfirmReturns(s)

FairSpec == Spec /\ WF_vars(Returns(1))

\* one invocation of the command whose responses hold modify actions that
\* lack a fragment
MalformedNext ==
    \/ Invoke(1)
    \/ InputReturns(1)
    \/ \E response \in MalformedResponses : ResponseReturns(1, response)
    \/ TransportFails(1)
    \/ ConfirmReturns(1)

MalformedSpec == Init /\ [][MalformedNext]_vars

(***************************************************************************)
(* The command invoked again while an earlier invocation is suspended      *)
(***************************************************************************)
\* the responses of the two invocations: a create followed by a modify of
\* the same file, or a delete of it
ConcurrentResponses ==
    { ArrayText(<<Raw("create", PathX, Str("a"), Undefined, Undefined),
                  Raw("modify", PathX, Undefined, Str("a"), Str("b"))>>),
      ArrayText(<<Raw("delete", PathX, Undefined, Undefined, Undefined)>>) }

ConcurrentInit ==
    /\ files = [l \in Locs |-> Absent]
    /\ denied = {}
    /\ dirs = {<<>>, <<"home">>, Root}
    /\ doMaxRounds = 1
    /\ SessionsIdle
    /\ responseText = <<>>
    /\ completion = NotCalled
    /\ roundTrip = NotEscaped
    /\ InlineIdle

\* askii.doTask is registered without a guard: each invocation runs
\* askiiDoCommand on its own, and the awaits of one let the other go on
ConcurrentNext ==
    \E s \in Sessions :
        \/ Invoke(s)
        \/ InputReturns(s)
        \/ \E response \in ConcurrentResponses : ResponseReturns(s, response)
        \/ TransportFails(s)
        \/ ConfirmReturns(s)

ConcurrentSpec == ConcurrentInit /\ [][ConcurrentNext]_vars

(***************************************************************************)
(* A create action on a file that exists and on one that does not          *)
(***************************************************************************)
\* the contents of x before the command: x exists and is not empty
ExistingContents == UNION {[1..n -> {"b", "c"}] : n \in 1..MaxFileLen}

\* the content field of the create actions: absent, empty, plain, and
\* with escape sequences
CreateContents ==
    {Undefined, <<>>, Str("a"), <<BS, "n">>, <<"a", BS, QUOTE>>}

\* the responses: one create action, of x or of the file outside
CreateResponses ==
    {ArrayText(<<Raw("create", p, c, Undefined, Undefined)>>) :
        p \in Paths, c \in CreateContents}

CreateInit ==
    /\ files \in {[l \in Locs |-> IF l = PathJoin(Root, PathX) THEN c ELSE Absent] :
                     c \in ExistingContents}
    /\ denied = {}
    /\ dirs = {<<>>, <<"home">>, Root}
    /\ doMaxRounds = 1
    /\ SessionsIdle
    /\ responseText = <<>>
    /\ completion = NotCalled
    /\ roundTrip = NotEscaped
    /\ InlineIdle

CreateNext ==
    \/ Invoke(1)
    \/ InputReturns(1)
    \/ \E response \in CreateResponses : ResponseReturns(1, response)
    \/ TransportFails(1)
    \/ ConfirmReturns(1)

CreateSpec == CreateInit /\ [][CreateNext]_vars

(***************************************************************************)
(* A modify action on every short file content                             *)
(***************************************************************************)
\* the contents of the file before the command
FileContents == UNION {[1..n -> {"a", "b"}] : n \in 0..MaxFileLen}

\* the fragments of the modify actions; none holds a backslash
OldFragments == {Str("a"), Str("b")}
NewFragments == {Str("b"), <<"$", "&">>, <<"$", "$">>}

\* the responses: one modify action of the file
ModifyResponses ==
    {ArrayText(<<Raw("modify", PathX, Undefined, old, new)>>) :
        old \in OldFragments, new \in NewFragments}

ModifyInit ==
    /\ files \in {[l \in Locs |-> IF l = PathJoin(Root, PathX) THEN c ELSE Absent] :
                     c \in FileContents}
    /\ denied = {}
    /\ dirs = {<<>>, <<"home">>, Root}
    /\ doMaxRounds = 1
    /\ SessionsIdle
    /\ responseText = <<>>
    /\ completion = NotCalled
    /\ roundTrip = NotEscaped
    /\ InlineIdle

ModifyNext ==
    \/ Invoke(1)
    \/ InputReturns(1)
    \/ \E response \in ModifyResponses : ResponseReturns(1, response)
    \/ TransportFails(1)
    \/ ConfirmReturns(1)

ModifySpec == ModifyInit /\ [][ModifyNext]_vars

(***************************************************************************)
(* The file changed by someone else while a confirmation is pending        *)
(***************************************************************************)
\* the responses: a modify of x, alone or after a view of x
ExternalResponses ==
    {ArrayText(<<Raw("modify", PathX, Undefined, Str("a"), Str("b"))>>),
     ArrayText(<<Raw("view", PathX, Undefined, Undefined, Undefined),
                 Raw("modify", PathX, Undefined, Str("a"), Str("b"))>>)}

\* another program, or the user in an editor, saves x with content c or
\* removes it while the command waits for the answer to a confirmation
ExternalWrite(c) ==
    /\ pc[1] = "awaitConfirm"
    /\ files[PathJoin(Root, PathX)] # c
    /\ files' = [files EXCEPT ![PathJoin(Root, PathX)] = c]
    /\ last' = Event(0, "external", NoAction, "", "")
    /\ UNCHANGED <<dirs, denied, doMaxRounds, sessionVars, parserVars, inlineVars>>

ExternalNext ==
    \/ Invoke(1)
    \/ InputReturns(1)
    \/ \E response \in ExternalResponses : ResponseReturns(1, response)
    \/ TransportFails(1)
    \/ ConfirmReturns(1)
    \/ \E c \in FileContents \cup {Absent} : ExternalWrite(c)

ExternalSpec == ModifyInit /\ [][ExternalNext]_vars

(***************************************************************************)
(* parseWorkspaceActions called by itself on every short text              *)
(***************************************************************************)
ViewX == Raw("view", PathX, Undefined, Undefined, Undefined)
\* a view of the file named __proto__
ViewProto == Raw("view", PathProto, Undefined, Undefined, Undefined)
\* {"type":"view","path":5}
ViewFive == Raw("view", PathFive, Undefined, Undefined, Undefined)
\* {"type":"rename","path":"x"}
RenameX == Raw("rename", PathX, Undefined, Undefined, Undefined)

\* the lexical pieces of the texts
TextPieces ==
    {LB, RB, COMMA, PROSE, Lit(ViewX), Lit(JsNull), Lit(JsNumber),
     Lit(ViewFive), Lit(RenameX)}

\* every text of up to MaxTokens pieces
Texts == UNION {[1..n -> TextPieces] : n \in 0..MaxTokens}

ParserInit ==
    /\ files = [l \in Locs |-> Absent]
    /\ denied = {}
    /\ dirs = {<<>>, <<"home">>, Root}
    /\ doMaxRounds = 1
    /\ SessionsIdle
    /\ responseText \in Texts
    /\ completion = NotCalled
    /\ roundTrip = NotEscaped
    /\ InlineIdle

\* the call parseWorkspaceActions(responseText) completes
ParseResponse ==
    /\ completion.state = "none"
    /\ completion' = [state |-> "done",
                      threw |-> parseWorkspaceActionsCall(responseText).threw,
                      value |-> parseWorkspaceActions(responseText)]
    /\ UNCHANGED <<fsVars, doMaxRounds, sessionVars, last, responseText, roundTrip>>
    /\ UNCHANGED inlineVars

ParserNext == ParseResponse

ParserSpec == ParserInit /\ [][ParserNext]_vars

(***************************************************************************)
(* escapeJsonString and unescapeJsonString called one after the other      *)
(***************************************************************************)
\* the characters of the strings: a backslash, a double quote, a line
\* feed, and the letters n and a
Chars == {BS, QUOTE, NL, "n", "a"}

\* every string of up to MaxStrLen of them
Strings == UNION {[1..n -> Chars] : n \in 0..MaxStrLen}

EscapeInit ==
    /\ \E fsys \in InitFileSystems : files = fsys.files /\ denied = fsys.denied
    /\ dirs = {<<>>, <<"home">>, Root}
    /\ doMaxRounds = 1
    /\ SessionsIdle
    /\ responseText = <<>>
    /\ completion = NotCalled
    /\ roundTrip \in {[state |-> "called", str |-> str, escaped |-> <<>>,
                       unescaped |-> <<>>] : str \in Strings}
    /\ InlineIdle

\* escapeJsonString(str) returns
EscapeReturns ==
    /\ roundTrip.state = "called"
    /\ roundTrip' = [roundTrip EXCEPT !.state = "escaped",
                                      !.escaped = escapeJsonString(roundTrip.str)]
    /\ UNCHANGED <<fsVars, doMaxRounds, sessionVars, last, responseText,
                   completion, inlineVars>>

\* unescapeJsonString returns, called on what escapeJsonString returned
UnescapeReturns ==
    /\ roundTrip.state = "escaped"
    /\ roundTrip' = [roundTrip EXCEPT !.state = "done",
                                      !.unescaped =
                                          unescapeJsonString(roundTrip.escaped)]
    /\ UNCHANGED <<fsVars, doMaxRounds, sessionVars, last, responseText,
                   completion, inlineVars>>

EscapeNext == EscapeReturns \/ UnescapeReturns

EscapeSpec == EscapeInit /\ [][EscapeNext]_vars

(***************************************************************************)
(* Views of any file name the model may ask for                            *)
(***************************************************************************)
\* the elements of the responses: views of x and of __proto__, and a create
ViewElements == {ViewX, ViewProto, Raw("create", PathX, Str("a"), Undefined, Undefined)}

\* the response texts that are JSON arrays of up to MaxActions of them
ViewResponses ==
    {ArrayText(e) : e \in UNION {[1..n -> ViewElements] : n \in 0..MaxActions}}

\* one invocation of the command whose responses are drawn from them
ViewNext ==
    \/ Invoke(1)
    \/ InputReturns(1)
    \/ \E response \in ViewResponses : ResponseReturns(1, response)
    \/ TransportFails(1)
    \/ ConfirmReturns(1)

ViewSpec == Init /\ [][ViewNext]_vars

(***************************************************************************)
(* The round budget under every value of the setting                       *)
(***************************************************************************)
\* the range of askii.doMaxRounds that the change log documents
DocumentedMinRounds == 1
DocumentedMaxRounds == 20

\* the values settings.json can hold for askii.doMaxRounds: the documented
\* range, 0 (falsy, as an unset value is), a negative one and one above
\* the range
Settings == (DocumentedMinRounds - 2)..(DocumentedMaxRounds + 1)

\* responses that keep the loop going (a view) or end it (no action)
BudgetResponses == {ArrayText(<<>>), ArrayText(<<ViewX>>)}

BudgetInit ==
    /\ files = [l \in Locs |-> Absent]
    /\ denied = {}
    /\ dirs = {<<>>, <<"home">>, Root}
    /\ doMaxRounds \in Settings
    /\ SessionsIdle
    /\ responseText = <<>>
    /\ completion = NotCalled
    /\ roundTrip = NotEscaped
    /\ InlineIdle

BudgetNext ==
    \/ Invoke(1)
    \/ InputReturns(1)
    \/ \E response \in BudgetResponses : ResponseReturns(1, response)
    \/ TransportFails(1)

BudgetSpec == BudgetInit /\ [][BudgetNext]_vars

(***************************************************************************)

(* The inline helper: updateDecorations, its timers and the events         *)
(***************************************************************************)
\* the values of askii.inlineHelperMode the model switches between
Modes == {"off", "funny"}

\* get<string>("inlineHelperMode") || "funny"
EffectiveMode(setting) == IF setting = "" THEN "funny" ELSE setting

\* updateDecorations(editor) with the cursor on the given line and the cache
\* as the call finds it: what it leaves in the decorations, the timers and
\* the abort controllers
updateDecorations(editor, line, cache) ==
    LET lineText == Trim(LineAt(editor, line))
        cacheKey == CacheKey(editor, line, lineText)
        cleared  == [decorations EXCEPT ![editor] = NoDecoration]
        Returns0(decs) ==
            [decorations |-> decs, debounceTimer |-> debounceTimer,
             thinkingTimer |-> thinkingTimer, requests |-> requests]
    IN  IF EffectiveMode(inlineHelperMode) = "off" THEN Returns0(cleared)
        ELSE IF Len(lineText) <= 3 THEN Returns0(cleared)
        ELSE IF cacheKey \in DOMAIN cache
        THEN Returns0(ShowDecoration(cleared, editor, line,
                                     cache[cacheKey].kaomoji,
                                     cache[cacheKey].explanation))
        ELSE [decorations |-> cleared,
              requests |-> LeaveCurrent(AbortCurrent(requests)),
              thinkingTimer |-> SetTimeout(editor, line, cacheKey, ThinkingDelay),
              debounceTimer |-> SetTimeout(editor, line, cacheKey, DebounceDelay)]

\* the state a call of updateDecorations leaves
UpdateDecorationsCall(editor, line, cache) ==
    LET u == updateDecorations(editor, line, cache)
    IN  /\ decorations' = u.decorations
        /\ debounceTimer' = u.debounceTimer
        /\ thinkingTimer' = u.thinkingTimer
        /\ requests' = u.requests

\* whether a cursor move onto the line finds no cache entry for it
Uncached(editor, line) ==
    CacheKey(editor, line, Trim(LineAt(editor, line))) \notin DOMAIN explanationCache

\* whether a call of updateDecorations reaches its setTimeout calls
Schedules(editor, line, cache) ==
    /\ EffectiveMode(inlineHelperMode) # "off"
    /\ Len(Trim(LineAt(editor, line))) > 3
    /\ CacheKey(editor, line, Trim(LineAt(editor, line))) \notin DOMAIN cache

\* a cursor move: where it went, and whether it and every move before it
\* since the debounce timer was last set went onto an uncached line
MoveTo(editor, line) ==
    [uri |-> editor, line |-> line,
     uncached |-> /\ Uncached(editor, line)
                  /\ \/ Schedules(editor, line, explanationCache)
                     \/ latestMove.uncached]

agentVars == <<fsVars, doMaxRounds, sessionVars, last, parserVars>>

\* onDidChangeTextEditorSelection: the cursor of the active editor moves
SelectionChanges(line) ==
    /\ activated
    /\ selection' = [selection EXCEPT ![activeTextEditor] = line]
    /\ latestMove' = MoveTo(activeTextEditor, line)
    /\ UpdateDecorationsCall(activeTextEditor, line, explanationCache)
    /\ UNCHANGED <<inlineHelperMode, activeTextEditor, explanationCache, agentVars,
                   activated>>
    /\ lastSettled' = "none"

\* onDidChangeActiveTextEditor: another editor becomes the active one
ActiveEditorChanges(editor) ==
    /\ activated
    /\ editor # activeTextEditor
    /\ activeTextEditor' = editor
    /\ latestMove' = MoveTo(editor, selection[editor])
    /\ UpdateDecorationsCall(editor, selection[editor], explanationCache)
    /\ UNCHANGED <<inlineHelperMode, selection, explanationCache, agentVars,
                   activated>>
    /\ lastSettled' = "none"

\* onDidChangeTextDocument: the text of a document changes (somewhere that
\* leaves the trimmed texts of its lines as they are)
TextDocumentChanges(uri) ==
    /\ activated
    /\ explanationCache' =
          IF uri = activeTextEditor
          THEN [k \in {c \in DOMAIN explanationCache : ~StartsWith(c, uri)} |->
                   explanationCache[k]]
          ELSE explanationCache
    /\ UNCHANGED <<inlineHelperMode, activeTextEditor, selection, debounceTimer,
                   thinkingTimer, requests, decorations, latestMove, agentVars,
                   activated>>
    /\ lastSettled' = "none"

\* the askii.clearCache command
ClearCache ==
    /\ activated
    /\ explanationCache' = NoEntries
    /\ UpdateDecorationsCall(activeTextEditor, selection[activeTextEditor], NoEntries)
    /\ UNCHANGED <<inlineHelperMode, activeTextEditor, selection, latestMove,
                   agentVars,
                   activated>>
    /\ lastSettled' = "none"

\* the user changes the askii.inlineHelperMode setting; the extension
\* listens to no configuration event
ModeChanges(mode) ==
    /\ mode # inlineHelperMode
    /\ inlineHelperMode' = mode
    /\ UNCHANGED <<activeTextEditor, selection, explanationCache, debounceTimer,
                   thinkingTimer, requests, decorations, latestMove, agentVars,
                   activated>>
    /\ lastSettled' = "none"

\* a timer after ms more milliseconds
Elapse(timer, ms) ==
    IF timer.pending THEN [timer EXCEPT !.remaining = @ - ms] ELSE timer
Due(timer) == timer.pending /\ timer.remaining = 0
\* the time until the next pending timer is due
NextDue ==
    IF thinkingTimer.pending /\ debounceTimer.pending
    THEN (IF thinkingTimer.remaining < debounceTimer.remaining
          THEN thinkingTimer.remaining ELSE debounceTimer.remaining)
    ELSE IF thinkingTimer.pending THEN thinkingTimer.remaining
    ELSE debounceTimer.remaining

\* time passes, up to the moment the next timer is due; the events that
\* come before that moment find the timers pending whenever they come
TimePasses ==
    /\ debounceTimer.pending \/ thinkingTimer.pending
    /\ ~Due(debounceTimer) /\ ~Due(thinkingTimer)
    /\ debounceTimer' = Elapse(debounceTimer, NextDue)
    /\ thinkingTimer' = Elapse(thinkingTimer, NextDue)
    /\ UNCHANGED <<inlineHelperMode, activeTextEditor, selection, explanationCache,
                   requests, decorations, latestMove, agentVars,
                   activated>>
    /\ lastSettled' = "none"

\* the callback of thinkingTimer
ThinkingFires ==
    /\ Due(thinkingTimer)
    /\ \E kaomoji \in ThinkingKaomojis :
          decorations' = ShowDecoration(decorations, thinkingTimer.uri,
                                        thinkingTimer.line, kaomoji, "thinking...")
    /\ thinkingTimer' = NoTimer
    /\ UNCHANGED <<inlineHelperMode, activeTextEditor, selection, explanationCache,
                   debounceTimer, requests, latestMove, agentVars,
                   activated>>
    /\ lastSettled' = "none"

\* the callback of debounceTimer up to its await: getLLMExplanation returns
\* "" at once when the mode is off, and calls the provider otherwise; the
\* signal of a pending timer's controller is never aborted
DebounceFires ==
    /\ Due(debounceTimer)
    /\ debounceTimer' = NoTimer
    /\ IF EffectiveMode(inlineHelperMode) = "off"
       THEN /\ \E kaomoji \in Kaomojis :
                  /\ explanationCache' =
                        CacheSet(explanationCache, debounceTimer.key, kaomoji, "")
                  /\ decorations' =
                        ShowDecoration(decorations, debounceTimer.uri,
                                       debounceTimer.line, kaomoji, "")
            /\ UNCHANGED requests
       ELSE /\ requests' = requests \cup
                  {[uri |-> debounceTimer.uri, line |-> debounceTimer.line,
                    key |-> debounceTimer.key, aborted |-> FALSE,
                    current |-> TRUE]}
            /\ UNCHANGED <<explanationCache, decorations>>
    /\ UNCHANGED <<inlineHelperMode, activeTextEditor, selection, thinkingTimer,
                   latestMove, agentVars,
                   activated>>
    /\ lastSettled' = "none"

\* deactivate(), and the disposal of context.subscriptions that comes with
\* it: the handlers and the decoration type are gone
Deactivate ==
    /\ activated
    /\ activated' = FALSE
    /\ debounceTimer' = NoTimer
    /\ thinkingTimer' = NoTimer
    /\ requests' = AbortCurrent(requests)
    /\ explanationCache' = NoEntries
    /\ decorations' = [e \in Editors |-> NoDecoration]
    /\ UNCHANGED <<inlineHelperMode, activeTextEditor, selection, latestMove,
                   agentVars>>
    /\ lastSettled' = "none"

\* the rest of the callback without the test of the signal
RequestSettlesUnchecked(r, outcome) ==
    /\ r \in requests
    /\ requests' = requests \ {r}
    /\ LET explanation == IF outcome = "throws" THEN ErrorText ELSE outcome
       IN  \E kaomoji \in Kaomojis :
             /\ explanationCache' =
                   CacheSet(explanationCache, r.key, kaomoji, explanation)
             /\ decorations' =
                   ShowDecoration(decorations, r.uri, r.line, kaomoji,
                                  explanation)
    /\ lastSettled' = IF r.aborted THEN "aborted" ELSE "live"
    /\ UNCHANGED <<inlineHelperMode, activeTextEditor, selection, debounceTimer,
                   thinkingTimer, latestMove, agentVars, activated>>

\* the provider call of a request returns an answer or throws; the rest of
\* the callback of debounceTimer
RequestSettles(r, outcome) ==
    /\ r \in requests
    /\ requests' = requests \ {r}
    /\ IF r.aborted
       THEN UNCHANGED <<explanationCache, decorations>>
       ELSE LET explanation == IF outcome = "throws" THEN ErrorText ELSE outcome
            IN  \E kaomoji \in Kaomojis :
                  /\ explanationCache' =
                        CacheSet(explanationCache, r.key, kaomoji, explanation)
                  /\ decorations' =
                        ShowDecoration(decorations, r.uri, r.line, kaomoji,
                                       explanation)
    /\ lastSettled' = IF r.aborted THEN "aborted" ELSE "live"
    /\ UNCHANGED <<inlineHelperMode, activeTextEditor, selection, debounceTimer,
                   thinkingTimer, latestMove, agentVars, activated>>

InlineInit ==
    /\ files = [l \in Locs |-> Absent]
    /\ denied = {}
    /\ dirs = {<<>>, <<"home">>, Root}
    /\ doMaxRounds = 1
    /\ SessionsIdle
    /\ responseText = <<>>
    /\ completion = NotCalled
    /\ roundTrip = NotEscaped
    /\ InlineIdle

InlineNext ==
    \/ \E line \in LineNumbers(activeTextEditor) : SelectionChanges(line)
    \/ \E editor \in Editors : ActiveEditorChanges(editor)
    \/ \E uri \in Editors : TextDocumentChanges(uri)
    \/ ClearCache
    \/ \E mode \in Modes : ModeChanges(mode)
    \/ TimePasses
    \/ ThinkingFires
    \/ DebounceFires
    \/ \E r \in requests, outcome \in Answers \cup {"throws"} :
          RequestSettles(r, outcome)
    \/ Deactivate

InlineSpec == InlineInit /\ [][InlineNext]_vars

(***************************************************************************)

(* Properties of the agent loop                                            *)
(***************************************************************************)
\* the button that confirms an action of the given type
Affirmative(type) ==
    CASE type = "create" -> "Create"
      [] type = "modify" -> "Modify"
      [] type = "delete" -> "Delete"
      [] OTHER -> "<none>"

\* d is a proper ancestor directory of loc
IsAncestor(d, loc) == Len(d) < Len(loc) /\ SubSeq(loc, 1, Len(d)) = d

\* whether a location lies inside the workspace root
InsideRoot(loc) == Len(loc) > Len(Root) /\ SubSeq(loc, 1, Len(Root)) = Root

CreateXA == Raw("create", PathX, Str("a"), Undefined, Undefined)
ModifyXAB == Raw("modify", PathX, Undefined, Str("a"), Str("b"))

\* C1 -- Termination by exhaustion: a session in which every LLM call
\* returned a response whose parsed actions hold at least one view action
\* ends having issued exactly maxRounds LLM calls.
TerminationByExhaustion ==
    \A s \in Sessions :
        (pc[s] = "done" /\ llmCalls[s] > 0 /\ everyRoundViewed[s]
            /\ thrown[s] # "transport")
        => llmCalls[s] = maxRounds[s]

\* C2 -- Termination by silence: while the actions of a round without view
\* action are being confirmed no LLM call is issued and no prompt is built,
\* and the step that handles the last of them ends the session.
TerminationBySilence ==
    [][\A s \in Sessions :
         (last'.session = s /\ pc[s] = "awaitConfirm" /\ viewActions[s] = <<>>)
         => /\ llmCalls'[s] = llmCalls[s]
            /\ fullPrompt'[s] = fullPrompt[s]
            /\ userMessage'[s] = userMessage[s]
            /\ roundCount'[s] = roundCount[s]
            /\ pc'[s] \in {"awaitConfirm", "done"}
            /\ (cursor[s] = Len(otherActions[s]) => pc'[s] = "done")]_vars

\* witness of C2: round 0 held actions but no view, all of them were handled,
\* and the session ended after one LLM call with a budget of two
SilentRoundEnded ==
    /\ pc[1] = "done" /\ terminal[1] = "summary"
    /\ viewActions[1] = <<>> /\ Len(otherActions[1]) > 0
    /\ cursor[1] = Len(otherActions[1]) + 1
    /\ roundCount[1] = 0 /\ llmCalls[1] = 1 /\ maxRounds[1] = 2

\* C3 -- Bounded termination: a session never issues more than maxRounds LLM
\* calls, and when every awaited call returns it reaches its terminated
\* state, whatever the responses and the answers are.
SessionTerminates ==
    /\ [](\A s \in Sessions : llmCalls[s] <= maxRounds[s])
    /\ (\E s \in Sessions : pc[s] \notin {"idle", "done"})
          ~> (\A s \in Sessions : pc[s] \in {"idle", "done"})

\* witness of C3: the session used up the largest round budget and ended
\* with the summary
BudgetExhausted ==
    /\ pc[1] = "done" /\ terminal[1] = "summary"
    /\ maxRounds[1] = MaxSetting /\ llmCalls[1] = maxRounds[1]

\* C4 -- Confirmation gate: a step changes a file or creates a directory only
\* when it is the affirmative answer to the confirmation of the pending
\* action, and then only the file of that action and its parent directories.
ConfirmationGate ==
    [][(files' # files \/ dirs' # dirs)
       => /\ last'.event = "confirm"
          /\ last'.session \in Sessions
          /\ pc[last'.session] = "awaitConfirm"
          /\ last'.action = otherActions[last'.session][cursor[last'.session]]
          /\ last'.answer = Affirmative(last'.action.type)
          /\ \A l \in Locs :
                files'[l] # files[l] => l = PathJoin(Root, last'.action.path)
          /\ \A d \in dirs' \ dirs :
                IsAncestor(d, PathJoin(Root, last'.action.path))]_vars

\* witness of C4: a confirmed create wrote its file and made the parent
\* directory of it
GateOpened ==
    /\ last.event = "confirm" /\ last.action.type = "create"
    /\ last.answer = "Create" /\ last.outcome = "applied"
    /\ Dirname(PathJoin(Root, last.action.path)) \in dirs
    /\ Dirname(PathJoin(Root, last.action.path)) # Root

\* C5 -- Decline no-op: a confirmation answered with anything but the
\* affirmative button (Skip, Cancel, dismissed) leaves the file system and
\* completedActions as they are, shows no failure, and the loop goes on with
\* the next action or with the end of the round.
DeclineNoOp ==
    [][\A s \in Sessions :
         (last'.session = s /\ last'.event = "confirm" /\ pc[s] = "awaitConfirm"
            /\ last'.answer # Affirmative(last'.action.type))
         => /\ files' = files /\ dirs' = dirs
            /\ completedActions'[s] = completedActions[s]
            /\ last'.shown = "none"
            /\ thrown'[s] = thrown[s] /\ terminal'[s] # "failed"
            /\ IF cursor[s] < Len(otherActions[s])
               THEN /\ pc'[s] = "awaitConfirm"
                    /\ cursor'[s] = cursor[s] + 1
                    /\ otherActions'[s] = otherActions[s]
               ELSE /\ pc'[s] \in {"awaitModel", "done"}
                    /\ (pc'[s] = "done" => terminal'[s] = "summary")]_vars

\* witness of C5: the first confirmation of a round was dismissed and the
\* confirmation of the second action is pending
DeclinedThenNext ==
    /\ last.event = "confirm" /\ last.answer = Dismissed
    /\ last.outcome = "declined"
    /\ pc[1] = "awaitConfirm" /\ cursor[1] = 2

\* C6 -- Path containment: no file outside the workspace root is ever
\* written or deleted and no directory is made outside it.
PathContainment ==
    \A l \in Locs :
        ~InsideRoot(l) => (files[l] = Absent /\ Dirname(l) \notin dirs)

\* C7 -- Sequential dependency: in a round whose non-view actions are
\* [create x "a", modify x "a" -> "b"], once both are confirmed file x holds
\* "b".
SequentialDependency ==
    [][\A s \in Sessions :
         (last'.session = s /\ pc[s] = "awaitConfirm"
            /\ otherActions[s] = <<CreateXA, ModifyXAB>> /\ cursor[s] = 2
            /\ last.event = "confirm" /\ last.answer = "Create"
            /\ last'.event = "confirm" /\ last'.answer = "Modify")
         => files'[LocX] = Str("b")]_vars

\* witness of C7: the round [create x "a", modify x "a" -> "b"] is through,
\* the modify was confirmed and applied, and x holds "b"
CreateThenModifyDone ==
    /\ pc[1] = "done" /\ otherActions[1] = <<CreateXA, ModifyXAB>>
    /\ last.event = "confirm" /\ last.answer = "Modify"
    /\ last.outcome = "applied" /\ completedActions[1] >= 2
    /\ files[LocX] = Str("b")

\* C8 -- File-system failures are contained: a confirmed action whose file
\* operation throws is reported once, is not counted, and does not end the
\* session: the next action of the round is prompted for.
FileSystemFailureContained ==
    [][\A s \in Sessions :
         (last'.session = s /\ last'.event = "confirm"
            /\ last'.outcome \in {"failed", "threw"})
         => /\ completedActions'[s] = completedActions[s]
            /\ last'.shown = "error"
            /\ terminal'[s] # "failed"
            /\ (cursor[s] < Len(otherActions[s]) => pc'[s] = "awaitConfirm")]_vars

\* C9 -- Transport failure is terminal: the step in which an LLM call throws
\* ends the session with the failure message, not the summary, and from then
\* on no LLM call is issued, no file is touched and nothing is counted.
TransportFailureIsTerminal ==
    [][\A s \in Sessions :
         (thrown'[s] = "transport")
         => /\ pc'[s] = "done" /\ terminal'[s] = "failed"
            /\ llmCalls'[s] = llmCalls[s]
            /\ files' = files /\ dirs' = dirs
            /\ completedActions'[s] = completedActions[s]
            /\ last'.shown = "none"]_vars

\* witness of C9: the LLM call of a later round threw after an action of an
\* earlier round had been applied
TransportFailedInLaterRound ==
    /\ thrown[1] = "transport" /\ last.event = "transportError"
    /\ roundCount[1] >= 1 /\ completedActions[1] >= 1
    /\ pc[1] = "done" /\ terminal[1] = "failed"

\* C10 -- No rollback: a step that does not apply a write action (a declined
\* or failed action, a throw, a response, the end of the loop) leaves every
\* file as it is and removes no directory, and a step that applies one
\* changes no file but its own.
NoRollback ==
    [][/\ dirs \subseteq dirs'
       /\ (last'.event # "confirm" \/ last'.outcome # "applied") => files' = files
       /\ (last'.event = "confirm" /\ last'.outcome = "applied")
          => \A l \in Locs :
                l # PathJoin(Root, last'.action.path) => files'[l] = files[l]]_vars

\* witness of C10: x, missing at first, holds the "a" that an applied create
\* wrote, and the session then ended with a transport failure in a later round
WriteKeptAfterFailure ==
    /\ thrown[1] = "transport" /\ terminal[1] = "failed"
    /\ LocX \notin denied /\ completedActions[1] = 1 /\ roundCount[1] >= 1
    /\ files[LocX] = Str("a")


\* C11 -- completedActions is the tally of applied write actions: it starts
\* at 0, a step adds one to it exactly when it is the confirmed, successful
\* application of a create, modify or delete, and no other step (a response
\* with its views, a declined or failed action, a throw) changes it.
CompletedCountTally ==
    /\ \A s \in Sessions : completedActions[s] = 0
    /\ [][\A s \in Sessions :
            LET applied == /\ last'.session = s /\ last'.event = "confirm"
                           /\ last'.outcome = "applied"
                           /\ last'.action.type \in {"create", "modify", "delete"}
                           /\ last'.answer = Affirmative(last'.action.type)
            IN  completedActions'[s] =
                    completedActions[s] + (IF applied THEN 1 ELSE 0)]_vars

\* witness of C11: one action of the round was applied and counted, the
\* next one was confirmed too but failed and was not counted
CountedAroundFailure ==
    /\ last.event = "confirm" /\ last.outcome = "failed"
    /\ last.answer = Affirmative(last.action.type)
    /\ cursor[1] >= 2 /\ completedActions[1] = 1

\* the elements of the first well-formed JSON array of a text: the array
\* that starts at the leftmost "[" from which the array grammar succeeds
HasWellFormedArray(text) ==
    \E i \in 1..Len(text) : text[i].tok = "[" /\ ParseArray(text, i).ok
FirstWellFormedArray(text) ==
    LET starts == {i \in 1..Len(text) :
                      text[i].tok = "[" /\ ParseArray(text, i).ok}
    IN  ParseArray(text, CHOOSE i \in starts : \A j \in starts : i <= j).value

\* an element that is an action by the specification: an object with a type
\* of the closed set and a non-empty string for path
IsAction(e) ==
    /\ e.json = "object" /\ e.type \in ActionTypes
    /\ IsString(e.path) /\ e.path # <<>>

\* C12 -- Parser salvage: when the first well-formed array of the text is a
\* non-empty array of actions, parseWorkspaceActions returns exactly those
\* actions, whatever the text around the array holds.
ParserSalvage ==
    (completion.state = "done" /\ HasWellFormedArray(responseText)
        /\ FirstWellFormedArray(responseText) # <<>>
        /\ \A i \in 1..Len(FirstWellFormedArray(responseText)) :
              IsAction(FirstWellFormedArray(responseText)[i]))
    => completion.value = FirstWellFormedArray(responseText)

\* there is no "[" with a "]" after it
NoArrayStructure(text) ==
    ~\E i, j \in 1..Len(text) : i < j /\ text[i].tok = "[" /\ text[j].tok = "]"

\* C13 -- Empty on garbage: every call of parseWorkspaceActions returns (no
\* exception leaves it), what it returns is a sequence of elements of the
\* text whose type is an action type, and it is empty when the text has no
\* array structure or the span from the first "[" to the last "]" does not
\* decode.
EmptyOnGarbage ==
    completion.state = "done"
    => /\ ~completion.threw
       /\ \A i \in 1..Len(completion.value) :
             /\ completion.value[i].type \in ActionTypes
             /\ \E k \in 1..Len(responseText) :
                   responseText[k] = Lit(completion.value[i])
       /\ (NoArrayStructure(responseText)
             \/ ~JsonParse(RegexMatch(responseText)).ok)
          => completion.value = <<>>

\* witness of C13: the call returned the empty sequence for a text whose
\* bracketed span holds an action but does not decode
GarbageReturnedEmpty ==
    /\ completion.state = "done" /\ ~completion.threw
    /\ completion.value = <<>>
    /\ responseText = <<LB, Lit(ViewX), RB, PROSE, RB>>

\* C14 -- A round whose response holds no decodable action array ends the
\* session normally: the step touches no file, counts nothing, and ends with
\* the summary, not with the failure message.
ParseFailureEndsNormally ==
    [][\A s \in Sessions :
         (last'.session = s /\ last'.event = "response" /\ last'.outcome # "")
         => /\ files' = files /\ dirs' = dirs
            /\ completedActions'[s] = completedActions[s]
            /\ llmCalls'[s] = llmCalls[s]
            /\ thrown'[s] = thrown[s]
            /\ pc'[s] = "done" /\ terminal'[s] = "summary"]_vars

\* witness of C14: after a round that applied an action, the response of
\* the next round held a span that does not decode, and the session ended
\* with the summary
EndedOnSyntaxError ==
    /\ last.event = "response" /\ last.outcome = "SyntaxError"
    /\ roundCount[1] >= 1 /\ completedActions[1] >= 1
    /\ pc[1] = "done" /\ terminal[1] = "summary"

\* C15 -- Partial-credit parsing: for a text whose bracketed span decodes,
\* the result is the decoded array without the elements that are not valid,
\* in order: an element that is not valid (null among them) is dropped on
\* its own and every valid sibling is returned.
PartialCreditParsing ==
    (completion.state = "done" /\ RegexMatch(responseText) # <<>>
        /\ JsonParse(RegexMatch(responseText)).ok)
    => completion.value =
          SelectSeq(JsonParse(RegexMatch(responseText)).value,
                    LAMBDA e : e.json # "null" /\ IsValidAction(e))

\* C16 -- Validity predicate: every element parseWorkspaceActions returns has
\* a type of the closed set and a non-empty string for path.
ValidityPredicate ==
    completion.state = "done"
    => \A i \in 1..Len(completion.value) :
          /\ completion.value[i].type \in ActionTypes
          /\ IsString(completion.value[i].path)
          /\ completion.value[i].path # <<>>

\* C17 -- A modify action that lacks oldContent or newContent is dropped at
\* parse time: it is never among the actions of a round that are prompted
\* for.
MalformedModifyDropped ==
    \A s \in Sessions :
        \A i \in 1..Len(otherActions[s]) :
            otherActions[s][i].type = "modify"
            => /\ otherActions[s][i].oldContent # Undefined
               /\ otherActions[s][i].newContent # Undefined

\* C18 -- Non-view actions run before the views of the round are read: when
\* a round is through, the viewResults entry of every path is what a read
\* of the file gives after the writes of that round.
ViewsSeeWritesOfRound ==
    \A s \in Sessions :
        (pc[s] = "done" /\ terminal[s] = "summary")
        => \A p \in DOMAIN viewResults[s] :
              viewResults[s][p] = ViewEntry(files, denied, p)

\* the view results a response step produced: they are in userMessage when
\* the next round was started, in viewResults otherwise
NewViewResults(um, vr, c) == IF c = "awaitModel" THEN um.results ELSE vr

\* C19 -- Idempotent View: the same view twice in one round is one entry;
\* the views of a round that follows a round without write action give the
\* entries the earlier round gave; and the step that executes the views
\* changes no file, makes no directory and puts no view action among the
\* actions that are prompted for.
IdempotentView ==
    /\ [](\A p \in Paths :
            ExecuteViews(files, denied,
                <<Raw("view", p, Undefined, Undefined, Undefined),
                  Raw("view", p, Undefined, Undefined, Undefined)>>)
            = ExecuteViews(files, denied,
                <<Raw("view", p, Undefined, Undefined, Undefined)>>))
    /\ [][\A s \in Sessions :
            (last'.session = s /\ last'.event = "response")
            => /\ files' = files /\ dirs' = dirs
               /\ \A i \in 1..Len(otherActions'[s]) :
                     otherActions'[s][i].type # "view"
               /\ (last.session = s /\ last.event = "response")
                  => \A p \in DOMAIN userMessage[s].results
                            \cap DOMAIN NewViewResults(userMessage'[s],
                                                       viewResults'[s], pc'[s]) :
                        NewViewResults(userMessage'[s], viewResults'[s],
                                       pc'[s])[p]
                        = userMessage[s].results[p]]_vars

\* witness of C19: two rounds in a row viewed x and nothing else, and the
\* second round gave the entry the first round had given
ViewedTwice ==
    /\ pc[1] = "done" /\ last.event = "response" /\ roundCount[1] = 2
    /\ otherActions[1] = <<>>
    /\ PathX \in DOMAIN viewResults[1]
    /\ userMessage[1].results = viewResults[1]

\* C20 -- Exactly one terminal message: a session that got past its initial
\* checks shows no terminal message while it runs, ends with the summary or
\* with the failure message, with the failure message exactly when
\* something was thrown, and shows nothing after that.
OneTerminalMessage ==
    [][\A s \in Sessions :
         /\ (terminal[s] # "none") => (terminal'[s] = terminal[s])
         /\ (pc'[s] \in {"awaitModel", "awaitConfirm"}) => (terminal'[s] = "none")
         /\ (pc[s] \in {"awaitModel", "awaitConfirm"} /\ pc'[s] = "done")
            => /\ terminal'[s] \in {"summary", "failed"}
               /\ (terminal'[s] = "failed") <=> (thrown'[s] # "none")]_vars

\* witness of C20: a session ended with the failure message, and only with
\* it, after an action had been applied and counted
FailedAfterApplied ==
    /\ pc[1] = "done" /\ terminal[1] = "failed" /\ thrown[1] # "none"
    /\ completedActions[1] >= 1

\* the session read its configuration: it is past the initial checks
PastInitialChecks(s) ==
    pc[s] \in {"awaitModel", "awaitConfirm"} \/ terminal[s] \in {"summary", "failed"}

\* C21 -- The round budget of a session (maxRounds) is an integer of the
\* documented range 1..20, and 5 when the setting is unset, whatever value
\* the askii.doMaxRounds setting holds; no session issues more LLM calls
\* than the top of the range.
RoundBudgetInRange ==
    \A s \in Sessions :
        PastInitialChecks(s)
        => /\ maxRounds[s] \in DocumentedMinRounds..DocumentedMaxRounds
           /\ llmCalls[s] <= DocumentedMaxRounds
           /\ doMaxRounds = 0 => maxRounds[s] = DefaultMaxRounds

(***************************************************************************)
(* Properties of the agent loop: order and concurrency                     *)
(***************************************************************************)
\* sub holds the non-view elements of seq, each once, in the order of seq
NonViewsInOrder(sub, seq) ==
    LET kept == {i \in 1..Len(seq) : seq[i].type # "view"}
    IN  /\ Len(sub) = Cardinality(kept)
        /\ \E f \in [1..Len(sub) -> kept] :
              /\ \A i, j \in 1..Len(sub) : i < j => f[i] < f[j]
              /\ \A i \in 1..Len(sub) : sub[i] = seq[f[i]]

\* C25 -- The non-view actions of a round are executed one at a time in the
\* order in which the model returned them: the actions a response leaves to
\* be confirmed are its non-view actions in their order, every confirmation
\* that returns is the one of the action at the cursor, and the next
\* confirmation is for the action right after it.
ActionsInModelOrder ==
    [][\A s \in Sessions :
          /\ (last'.session = s /\ last'.event = "response"
                /\ pc'[s] = "awaitConfirm")
             => \E response \in Responses :
                   /\ ResponseReturns(s, response)
                   /\ NonViewsInOrder(otherActions'[s],
                                      parseWorkspaceActions(response))
          /\ (last'.session = s /\ last'.event = "confirm")
             => /\ pc[s] = "awaitConfirm"
                /\ last'.action = otherActions[s][cursor[s]]
                /\ pc'[s] = "awaitConfirm"
                   => /\ cursor'[s] = cursor[s] + 1
                      /\ otherActions'[s] = otherActions[s]]_vars

\* the second action of a round is up for confirmation after a first,
\* different one was applied
SecondActionPrompted ==
    /\ pc[1] = "awaitConfirm" /\ cursor[1] = 2
    /\ last.event = "confirm" /\ last.outcome = "applied"
    /\ otherActions[1][1] # otherActions[1][2]

\* C26 -- One LLM call at a time, no file operation or confirmation while it
\* is outstanding, and the file operations of a round are through before
\* the next prompt is sent: the only step a session takes while its call is
\* outstanding is the return of that call, which leaves the file system
\* alone; a confirmation only returns while no call is outstanding; and the
\* step of a confirmation that ends the round without a throw, and with it
\* the one that sends the next prompt, is the one of the last action of the
\* round.
StrictlySequential ==
    [][\A s \in Sessions :
          /\ (last'.session = s /\ pc[s] = "awaitModel")
             => /\ last'.event \in {"response", "transportError"}
                /\ UNCHANGED fsVars
          /\ (last'.session = s /\ last'.event = "confirm")
             => /\ pc[s] = "awaitConfirm"
                /\ (pc'[s] # "awaitConfirm" /\ last'.outcome # "threw")
                   => cursor[s] = Len(otherActions[s])
                /\ llmCalls'[s] # llmCalls[s]
                   => /\ llmCalls'[s] = llmCalls[s] + 1
                      /\ pc'[s] = "awaitModel"
          /\ llmCalls'[s] # llmCalls[s]
             => /\ last'.session = s
                /\ pc[s] # "awaitModel" \/ last'.event = "response"]_vars

\* the prompt of the next round was sent by the step that applied the
\* last action of a round that also viewed a file
NextPromptAfterLastAction ==
    /\ pc[1] = "awaitModel" /\ roundCount[1] = 1
    /\ last.event = "confirm" /\ last.outcome = "applied"
    /\ completedActions[1] = 1

(***************************************************************************)

\* the step recorded in e is a file operation of session s that went through
Operated(e, s) == e.session = s /\ e.event = "confirm" /\ e.outcome = "applied"

\* C27 -- File operations of two sessions never interleave: no operation of
\* one session comes between two operations of a round of the other. Stated
\* on two steps in a row of first rounds (where completedActions counts the
\* operations of the round): a session that has operated in its round does
\* not operate again right after an operation of the other session.
NoInterleaving ==
    [][\A s, t \in Sessions :
          (s # t /\ Operated(last', t) /\ roundCount[t] = 0
             /\ completedActions[t] >= 1)
          => ~Operated(last, s)]_vars

(***************************************************************************)

(* Properties of the modify branch                                         *)
(***************************************************************************)
\* content with its first occurrence of old replaced by new, both taken as
\* they are; content itself when old does not occur
ReplaceFirstLiterally(content, old, new) ==
    LET i == IndexOf(content, old)
    IN  IF i = 0 THEN content
        ELSE SubSeq(content, 1, i - 1) \o new
             \o SubSeq(content, i + Len(old), Len(content))

\* the step is the return of the confirmation of a modify action of
\* session s, answered "Modify"
ModifyConfirmed(s) ==
    /\ last'.session = s /\ last'.event = "confirm"
    /\ last'.action.type = "modify" /\ last'.answer = "Modify"

\* C28 -- After a confirmed Modify on a readable file, the content is the
\* content read with the first occurrence of oldFragment replaced by
\* newFragment, both taken literally.
ModifyReplacesLiterally ==
    [][\A s \in Sessions :
          LET loc == PathJoin(Root, last'.action.path)
          IN  (ModifyConfirmed(s) /\ ~ReadFails(files, denied, loc))
              => files'[loc] = ReplaceFirstLiterally(files[loc],
                                                     last'.action.oldContent,
                                                     last'.action.newContent)]_vars

\* C29 -- A confirmed Modify whose oldFragment does not occur in the file
\* leaves the content as it is and is counted as a completed action, with
\* a success acknowledgment.
NoMatchStillCounted ==
    [][\A s \in Sessions :
          LET loc == PathJoin(Root, last'.action.path)
          IN  (/\ ModifyConfirmed(s)
               /\ ~ReadFails(files, denied, loc)
               /\ ~WriteFails(dirs, denied, loc)
               /\ IndexOf(files[loc], last'.action.oldContent) = 0)
              => /\ files' = files
                 /\ completedActions'[s] = completedActions[s] + 1
                 /\ last'.outcome = "applied"
                 /\ last'.shown = "success"]_vars

\* a modify whose fragment "a" does not occur in "bb" was confirmed and
\* counted
NoMatchCounted ==
    /\ last.event = "confirm" /\ last.action.type = "modify"
    /\ last.answer = "Modify" /\ last.action.oldContent = Str("a")
    /\ files[PathJoin(Root, PathX)] = <<"b", "b">>
    /\ completedActions[1] = 1

\* C30 -- A confirmed Modify on a file that cannot be read is reported as
\* failed, leaves the file system as it is (the file is not created), does
\* not count as completed, and the session goes on with the next action.
UnreadableModifyFails ==
    [][\A s \in Sessions :
          LET loc == PathJoin(Root, last'.action.path)
          IN  (ModifyConfirmed(s) /\ ReadFails(files, denied, loc))
              => /\ UNCHANGED fsVars
                 /\ completedActions'[s] = completedActions[s]
                 /\ last'.outcome = "failed"
                 /\ last'.shown = "error"
                 /\ terminal'[s] # "failed"
                 /\ HasNextAction(cursor[s], otherActions[s])
                    => /\ pc'[s] = "awaitConfirm"
                       /\ cursor'[s] = cursor[s] + 1]_vars

\* a modify of a missing file failed and the next action of the round is up
\* for confirmation
NextPromptedAfterFailedModify ==
    /\ last.event = "confirm" /\ last.action.type = "modify"
    /\ last.outcome = "failed"
    /\ files[PathJoin(Root, last.action.path)] = Absent
    /\ pc[1] = "awaitConfirm" /\ cursor[1] = 2

(* Properties of the inline helper                                         *)
(***************************************************************************)
\* the cache key of a line of a document
KeyAt(editor, line) == CacheKey(editor, line, Trim(LineAt(editor, line)))

\* C22 -- While inlineHelperMode is "off", nothing scheduled before the
\* switch puts a decoration on screen and nothing is cached: a step taken
\* with the mode off leaves every editor's decoration as it was or removes
\* it, and adds no entry to the cache.
NothingShownWhileOff ==
    [][(inlineHelperMode = "off" /\ inlineHelperMode' = "off")
       => /\ \A e \in Editors : decorations'[e] \in {NoDecoration, decorations[e]}
          /\ DOMAIN explanationCache' \subseteq DOMAIN explanationCache]_vars

\* C23 -- Caching: a cursor move onto a line whose key has an entry shows
\* the stored explanation and schedules nothing (read for the modes in which
\* decorations are shown at all), and an entry only leaves the cache by a
\* text change of its own document or by the clear-cache command (or when
\* the extension is deactivated).
CachedKeyServed ==
    /\ [][\A line \in LineNumbers(activeTextEditor) :
            (/\ SelectionChanges(line)
             /\ EffectiveMode(inlineHelperMode) # "off"
             /\ KeyAt(activeTextEditor, line) \in DOMAIN explanationCache)
            => /\ decorations'[activeTextEditor] =
                    [line |-> line,
                     kaomoji |-> explanationCache[KeyAt(activeTextEditor, line)].kaomoji,
                     text |-> explanationCache[KeyAt(activeTextEditor, line)].explanation]
               /\ UNCHANGED <<debounceTimer, thinkingTimer, requests>>]_vars
    /\ [][\A e \in Editors : \A line \in LineNumbers(e) :
            (/\ KeyAt(e, line) \in DOMAIN explanationCache
             /\ KeyAt(e, line) \notin DOMAIN explanationCache')
            => (ClearCache \/ TextDocumentChanges(e) \/ Deactivate)]_vars

\* C24 -- Debouncing: when the debounce timer fires and an LLM request is
\* issued, the request is for the line of the last cursor move, whenever the
\* moves since the timer was set all went onto uncached lines (each of them
\* came less than the debounce delay after the one before, the timer being
\* still pending).
DebouncedBurst ==
    [][(DebounceFires /\ requests' # requests /\ latestMove.uncached)
       => /\ latestMove.uri = debounceTimer.uri
          /\ latestMove.line = debounceTimer.line]_vars

(***************************************************************************)
(* Properties of the view actions and of the prompts                       *)
(***************************************************************************)
\* C31 -- A view of a file that is missing or cannot be read never throws:
\* the step that executes such a view records the error placeholder under
\* its path in the view results of the round; a round that has only views
\* goes on to the next round when the budget allows, with the placeholder
\* in the next prompt; and a round whose view results hold a placeholder
\* ends, after its last confirmation, as a round whose views all succeeded.
FailedViewRecorded ==
    [][\A s \in Sessions :
          /\ (last'.session = s /\ last'.event = "response")
             => \A response \in ViewResponses :
                   ResponseReturns(s, response)
                   => LET acts  == parseWorkspaceActions(response)
                          views == ViewActions(acts)
                          vr    == NewViewResults(userMessage'[s],
                                                  viewResults'[s], pc'[s])
                      IN  \A i \in 1..Len(views) :
                             (PathJoin(Root, views[i].path) \notin Locs
                                \/ ReadFails(files, denied,
                                             PathJoin(Root, views[i].path)))
                             => /\ thrown'[s] = "none"
                                /\ views[i].path \in DOMAIN vr
                                /\ vr[views[i].path] = CannotRead
                                /\ Len(OtherActions(acts)) = 0
                                   => /\ roundCount'[s] = roundCount[s] + 1
                                      /\ LoopCondition(roundCount'[s], maxRounds[s])
                                         => /\ pc'[s] = "awaitModel"
                                            /\ llmCalls'[s] = llmCalls[s] + 1
                                            /\ fullPrompt'[s].results = vr
          /\ (last'.session = s /\ last'.event = "confirm"
                /\ pc'[s] # "awaitConfirm" /\ last'.outcome # "threw"
                /\ \E p \in DOMAIN viewResults[s] :
                      viewResults[s][p] = CannotRead)
             => /\ roundCount'[s] = roundCount[s] + 1
                /\ LoopCondition(roundCount'[s], maxRounds[s])
                   => /\ pc'[s] = "awaitModel"
                      /\ fullPrompt'[s].results = viewResults[s]]_vars

\* the paths of the view actions among acts
ViewedPaths(acts) ==
    {ViewActions(acts)[i].path : i \in 1..Len(ViewActions(acts))}

\* C32 -- The prompt of round 0 holds the user's goal and no view results;
\* the prompt of a later round holds the view results of the round right
\* before it, one entry per distinct path that round viewed, each entry
\* being what that round read, and nothing else.
PromptsCarryLastViews ==
    [][\A s \in Sessions :
          llmCalls'[s] # llmCalls[s]
          => IF last'.event = "question"
             THEN /\ roundCount'[s] = 0
                  /\ fullPrompt'[s].first
                  /\ fullPrompt'[s].text = "User request"
                  /\ fullPrompt'[s].results = NoResults
             ELSE /\ roundCount'[s] = roundCount[s] + 1
                  /\ ~fullPrompt'[s].first
                  /\ fullPrompt'[s].text = "File contents retrieved"
                  /\ last'.event = "confirm"
                     => /\ DOMAIN fullPrompt'[s].results = ViewedPaths(viewActions[s])
                        /\ fullPrompt'[s].results = viewResults[s]
                  /\ last'.event = "response"
                     => \A response \in ViewResponses :
                           ResponseReturns(s, response)
                           => LET acts == parseWorkspaceActions(response)
                              IN  /\ DOMAIN fullPrompt'[s].results = ViewedPaths(acts)
                                  /\ \A p \in DOMAIN fullPrompt'[s].results :
                                        fullPrompt'[s].results[p] =
                                            ViewEntry(files, denied, p)]_vars

(***************************************************************************)
(* Properties of the create branch                                         *)
(***************************************************************************)
\* C33 -- After a confirmed Create that does not fail, the file exists and
\* holds the content field of the action as unescapeJsonString decodes it
\* (nothing when the field is absent or empty), whether or not the file
\* existed: nothing of its earlier content is left.
CreateWritesContent ==
    [][\A s \in Sessions :
          LET loc == PathJoin(Root, last'.action.path)
              c   == last'.action.content
          IN  (/\ last'.session = s /\ last'.event = "confirm"
               /\ last'.action.type = "create" /\ last'.answer = "Create"
               /\ last'.outcome = "applied")
              => /\ files'[loc] # Absent
                 /\ files'[loc] = IF c = Undefined \/ c = <<>> THEN <<>>
                                  ELSE unescapeJsonString(c)
                 /\ Dirname(loc) \in dirs']_vars

\* x, which held text before the command, holds only what the create
\* action carried in escaped form
ExistingFileReplaced ==
    /\ last.event = "confirm" /\ last.action.type = "create"
    /\ last.action.path = PathX /\ last.action.content = <<"a", BS, QUOTE>>
    /\ files[LocX] = <<"a", QUOTE>>
    /\ completedActions[1] = 1

(***************************************************************************)
(* Properties of a modify while the file changes                           *)
(***************************************************************************)
\* C34 -- A modify works on the file as it is when its confirmation has
\* been granted, not on what a view of the round read: the content written
\* is the content the file had right before the confirmation returned,
\* changes made by others while it was pending included, with the first
\* occurrence of the old fragment replaced.
ModifyReadsAfterConfirmation ==
    [][\A s \in Sessions :
          LET loc == PathJoin(Root, last'.action.path)
          IN  (/\ ModifyConfirmed(s)
               /\ ~ReadFails(files, denied, loc)
               /\ ~WriteFails(dirs, denied, loc))
              => /\ last'.outcome = "applied"
                 /\ files'[loc] = ReplaceFirstLiterally(files[loc],
                                                        last'.action.oldContent,
                                                        last'.action.newContent)]_vars

\* the view of the round read "a"; the file was changed while the
\* confirmation was pending, and the modify kept the change
ChangeKeptByModify ==
    /\ last.event = "confirm" /\ last.action.type = "modify"
    /\ last.outcome = "applied"
    /\ PathX \in DOMAIN viewResults[1] /\ viewResults[1][PathX] = Str("a")
    /\ files[LocX] = <<"b", "b">>

(***************************************************************************)
(* Properties of the transport escaping                                    *)
(***************************************************************************)
\* C35 -- Round trip of the transport escaping: unescapeJsonString gives
\* back every string that escapeJsonString was called on.
EscapeRoundTrip ==
    roundTrip.state = "done" => roundTrip.unescaped = roundTrip.str

(***************************************************************************)
(* Properties of the inline helper: aborted and failed requests            *)
(***************************************************************************)
\* C36 -- A request whose abort controller has been aborted, by a newer
\* request or by deactivate, stores nothing in the cache and sets no
\* decoration when its LLM call returns, with an answer or with an error.
AbortedRequestInert ==
    [][\A r \in requests :
          \A outcome \in Answers \cup {"throws"} :
             (r.aborted /\ RequestSettles(r, outcome))
             => /\ explanationCache' = explanationCache
                /\ decorations' = decorations]_vars

\* deactivate has run, the LLM call of a request it aborted has returned
\* after it, and nothing is cached or on screen
AbortedRequestSettled ==
    /\ ~activated
    /\ lastSettled = "aborted"
    /\ requests = {}
    /\ explanationCache = NoEntries
    /\ \A e \in Editors : decorations[e] = NoDecoration
    /\ latestMove.uncached

\* C37 -- Every decoration that a thinking timer or a returned LLM request
\* sets is on the line of the most recent call of updateDecorations, the
\* line the cursor of the active editor is on: after the cursor has moved
\* to another line, nothing scheduled for the earlier line is put on
\* screen.
DecorationOnCurrentLine ==
    [][(\/ ThinkingFires
        \/ DebounceFires
        \/ \E r \in requests, outcome \in Answers \cup {"throws"} :
              RequestSettles(r, outcome))
       => \A e \in Editors :
             decorations'[e] # decorations[e]
             => /\ e = activeTextEditor
                /\ decorations'[e].line = selection[activeTextEditor]]_vars

\* C38 -- A text change of a document removes every cache entry of that
\* document and no entry of another document, whichever document is the
\* active one and whatever the URIs are.
TextChangeRemovesOwnEntries ==
    [][\A uri \in Editors :
          TextDocumentChanges(uri)
          => \A e \in Editors : \A line \in LineNumbers(e) :
                KeyAt(e, line) \in DOMAIN explanationCache
                => (KeyAt(e, line) \in DOMAIN explanationCache' <=> e # uri)]_vars

\* C39 -- A request whose LLM call fails (provider or network error)
\* stores nothing in the cache, so that the next visit of the line issues
\* a new request: the step in which the call throws leaves the cache as it
\* was.
FailedRequestNotCached ==
    [][\A r \in requests :
          RequestSettles(r, "throws")
          => explanationCache' = explanationCache]_vars

====
